---------------------------- MODULE Spec2Model ----------------------------
(***************************************************************************)
(* A model of the simulation core of python_asteroids: the asteroid        *)
(* hit/split rules (asteroid.py), the score system (game_state.py), the    *)
(* wave manager (level_manager.py), the player's lives (player.py) and the *)
(* frame loop that ties them together (main.py).                           *)
(*                                                                         *)
(* Units.  Times are integers in tenths of a second (1.5 s is 15).         *)
(* Multipliers are integers in hundredths (2.5 is 250); a product of       *)
(* multipliers is kept exact and divided out once, where the code          *)
(* truncates with int().  Binary floating point rounding is not modelled.  *)
(***************************************************************************)
EXTENDS Integers, Sequences, FiniteSets, TLC

VARIABLES
    score_system,   \* the ScoreSystem object (game_state.py)
    asteroids,      \* the `asteroids` sprite group: slot -> Asteroid object
    ufos,           \* the size of the `ufos` sprite group
    enemy_projectiles, \* the size of the `enemy_projectiles` sprite group
    shots,          \* the `shots` sprite group: how many Shoot objects are on
                    \* the screen and how many have left it
    powerups,       \* the `powerups` sprite group: the power-up types lying there
    level_manager,  \* the LevelManager object with its waves
    player,         \* the Player object
    gsm,            \* the GameStateManager object
    loop,           \* main()'s locals: pc, dt, running, game_initialized
    last            \* the last call made: its name, arguments and return value

vars == <<score_system, asteroids, ufos, enemy_projectiles, shots, powerups,
          level_manager, player, gsm, loop, last>>

-----------------------------------------------------------------------------
(* Bounds of the model *)

\* add_score is not taken beyond this score
MaxScore == 700
\* a frame lasts 0, DtStep or 2*DtStep tenths of a second
DtStep == 5
\* time_survived is tracked up to this value and saturates there
MaxTimeSurvived == 5
\* the asteroids group holds at most this many asteroids
MaxAsteroids == 5
\* the enemy_projectiles group holds at most this many projectiles
MaxProjectiles == 4
\* the ufos group holds at most this many UFOs
MaxUfos == 2
\* while a level is played, at most this many asteroids are alive
MaxLive == 2
\* a wave timer is tracked down to this many tenths of a second below zero
MaxOverdue == 10
\* at most this many shots of the player are alive
MaxShots == 2

Dts == {0, DtStep, 2 * DtStep}

Min(a, b) == IF a < b THEN a ELSE b
Max(a, b) == IF a > b THEN a ELSE b

\* a call, with the methods it called in turn
CallWith(op, args, ret, calls) ==
    [op |-> op, args |-> args, ret |-> ret, calls |-> calls]
Call(op, args, ret) == CallWith(op, args, ret, {})

-----------------------------------------------------------------------------
(* constants.py *)

ASTEROID_MIN_RADIUS == 18
ASTEROID_KINDS == 3
SCORE_LARGE_ASTEROID == 100
SCORE_MEDIUM_ASTEROID == 50
SCORE_SMALL_ASTEROID == 25
UFO_SCORE == 300
ASTEROID_TYPE_REGULAR == 0
ASTEROID_TYPE_EXPLOSIVE == 1
ASTEROID_TYPE_ARMORED == 2
ARMORED_HITS_REQUIRED == 3
EXPLOSIVE_PROJECTILE_COUNT == 4
PLAYER_INITIAL_LIVES == 3
\* 2.0 s
PLAYER_RESPAWN_TIME == 20
\* 3.0 s
PLAYER_SPAWN_INVULNERABILITY_TIME == 30
\* 4.0 s
POWERUP_INVINCIBILITY_DURATION == 40

POWERUP_AMMO == 0
POWERUP_FIRE_RATE == 1
POWERUP_SCORE == 2
POWERUP_INVINCIBILITY == 3
\* 5.0 seconds, in tenths
POWERUP_FIRE_RATE_DURATION == 50
POWERUP_SCORE_AMOUNT == 500
AMMO_MAX_SHOTS == 80
AMMO_INITIAL == 25
\* AMMO_RECHARGE_RATE = 2.0 seconds
AMMO_RECHARGE_RATE == 20
AMMO_RECHARGE_AMOUNT == 3
POWERUP_AMMO_AMOUNT == 5
\* PLAYER_SHOT_COUNTDOWN = 0.3 seconds, in hundredths of a second
PLAYER_SHOT_COUNTDOWN == 30
\* POWERUP_FIRE_RATE_MULTIPLIER = 0.3, in hundredths
POWERUP_FIRE_RATE_MULTIPLIER == 30
\* one, in hundredths: the unit of every multiplier
Scale == 100

-----------------------------------------------------------------------------
(* ScoreSystem (game_state.py) *)

\* self.combo_timeout = 1.5
combo_timeout == 15

\* _load_high_scores: the table used when no file exists
DefaultHighScores ==
    << [name |-> "AAA", score |-> 10000],
       [name |-> "BBB", score |-> 8000],
       [name |-> "CCC", score |-> 6000],
       [name |-> "DDD", score |-> 4000],
       [name |-> "EEE", score |-> 2000] >>

ScoreSystem_init(table) ==
    [ score |-> 0,
      high_scores |-> table,
      combo_count |-> 0,
      combo_timer |-> 0,
      max_combo |-> 0,
      base_multiplier |-> Scale,
      combo_multiplier |-> Scale,
      level_multiplier |-> Scale,
      achievements |-> {},
      asteroids_destroyed |-> 0,
      ufos_destroyed |-> 0,
      time_survived |-> 0,
      waves_completed |-> 0,
      perfect_wave |-> TRUE ]

ScoreSystem_add_achievement(ss, achievement) ==
    [ss EXCEPT !.achievements = @ \cup {achievement}]

\* the chain without its first branch
ComboStep_NoCap(ss) ==
    IF ss.combo_count >= 7 THEN [ss EXCEPT !.combo_multiplier = 300]
    ELSE IF ss.combo_count >= 5
         THEN ScoreSystem_add_achievement(
                  [ss EXCEPT !.combo_multiplier = 250], "COMBO_MASTER")
    ELSE IF ss.combo_count >= 3 THEN [ss EXCEPT !.combo_multiplier = 200]
    ELSE IF ss.combo_count >= 2 THEN [ss EXCEPT !.combo_multiplier = 150]
    ELSE [ss EXCEPT !.combo_multiplier = Scale]

\* the chain awarding COMBO_MASTER two branches up
ComboStep_AwardLate(ss) ==
    IF ss.combo_count >= 10 THEN [ss EXCEPT !.combo_multiplier = 400]
    ELSE IF ss.combo_count >= 7
         THEN ScoreSystem_add_achievement(
                  [ss EXCEPT !.combo_multiplier = 300], "COMBO_MASTER")
    ELSE IF ss.combo_count >= 5 THEN [ss EXCEPT !.combo_multiplier = 250]
    ELSE IF ss.combo_count >= 3 THEN [ss EXCEPT !.combo_multiplier = 200]
    ELSE IF ss.combo_count >= 2 THEN [ss EXCEPT !.combo_multiplier = 150]
    ELSE [ss EXCEPT !.combo_multiplier = Scale]

\* the if/elif chain that ends add_score, on the count just incremented
ComboStep(ss) ==
    IF ss.combo_count >= 10 THEN [ss EXCEPT !.combo_multiplier = 400]
    ELSE IF ss.combo_count >= 7 THEN [ss EXCEPT !.combo_multiplier = 300]
    ELSE IF ss.combo_count >= 5
         THEN ScoreSystem_add_achievement(
                  [ss EXCEPT !.combo_multiplier = 250], "COMBO_MASTER")
    ELSE IF ss.combo_count >= 3 THEN [ss EXCEPT !.combo_multiplier = 200]
    ELSE IF ss.combo_count >= 2 THEN [ss EXCEPT !.combo_multiplier = 150]
    ELSE [ss EXCEPT !.combo_multiplier = Scale]

\* the score computed with the multiplier of the count after the hit
AdjustedScore_NewCombo(ss, points, level_multiplier) ==
    LET count == ss.combo_count + 1
        combo == IF count >= 10 THEN 400 ELSE IF count >= 7 THEN 300
                 ELSE IF count >= 5 THEN 250 ELSE IF count >= 3 THEN 200
                 ELSE IF count >= 2 THEN 150 ELSE Scale
    IN  (points * (ss.base_multiplier * combo * level_multiplier))
            \div (Scale * Scale * Scale)

\* int(points * total_multiplier), total_multiplier the product of the three
AdjustedScore(ss, points, level_multiplier) ==
    LET total_multiplier ==
            ss.base_multiplier * ss.combo_multiplier * level_multiplier
    IN  (points * total_multiplier) \div (Scale * Scale * Scale)

\* add_score: the object after the call (the call returns AdjustedScore)
ScoreSystem_add_score(ss, points, level_multiplier) ==
    LET adjusted_score == AdjustedScore(ss, points, level_multiplier)
        counted == [ss EXCEPT !.level_multiplier = level_multiplier,
                              !.score = @ + adjusted_score,
                              !.combo_count = @ + 1,
                              !.combo_timer = combo_timeout]
        maxed == IF counted.combo_count > counted.max_combo
                 THEN [counted EXCEPT !.max_combo = counted.combo_count]
                 ELSE counted
    IN  ComboStep(maxed)

\* update(dt); the achievement popup belongs to the display and is left out,
\* and time_survived saturates at MaxTimeSurvived
ScoreSystem_update(ss, dt) ==
    LET timed ==
            IF ss.combo_timer > 0
            THEN IF ss.combo_timer - dt <= 0
                 THEN [ss EXCEPT !.combo_timer = @ - dt,
                                 !.combo_count = 0,
                                 !.combo_multiplier = Scale]
                 ELSE [ss EXCEPT !.combo_timer = @ - dt]
            ELSE ss
        survived == [timed EXCEPT
                        !.time_survived = Min(@ + dt, MaxTimeSurvived)]
    IN  IF survived.time_survived >= 3000
           /\ "SURVIVOR" \notin survived.achievements
        THEN ScoreSystem_add_achievement(survived, "SURVIVOR")
        ELSE survived

ScoreSystem_reset(ss) ==
    [ss EXCEPT !.score = 0,
               !.combo_count = 0,
               !.combo_timer = 0,
               !.combo_multiplier = Scale,
               !.max_combo = 0,
               !.base_multiplier = Scale,
               !.level_multiplier = Scale,
               !.achievements = {},
               !.asteroids_destroyed = 0,
               !.ufos_destroyed = 0,
               !.time_survived = 0,
               !.waves_completed = 0,
               !.perfect_wave = TRUE]

\* ScoreSystem.on_wave_completed
ScoreSystem_on_wave_completed(ss, is_boss_wave) ==
    LET counted == [ss EXCEPT !.waves_completed = @ + 1]
        perfect == IF counted.perfect_wave
                   THEN ScoreSystem_add_achievement(counted, "PERFECT_WAVE")
                   ELSE counted
        reset   == [perfect EXCEPT !.perfect_wave = TRUE]
    IN  IF is_boss_wave
        THEN ScoreSystem_add_achievement(reset, "BOSS_SLAYER")
        ELSE reset

\* ScoreSystem.on_level_completed
ScoreSystem_on_level_completed(ss) ==
    ScoreSystem_add_achievement(ss, "LEVEL_COMPLETE")

ScoreSystem_on_player_hit(ss) ==
    [ss EXCEPT !.perfect_wave = FALSE,
               !.combo_count = 0,
               !.combo_multiplier = Scale,
               !.combo_timer = 0]

ScoreSystem_on_asteroid_destroyed(ss) ==
    LET counted == [ss EXCEPT !.asteroids_destroyed = @ + 1]
    IN  IF counted.asteroids_destroyed = 1
        THEN ScoreSystem_add_achievement(counted, "FIRST_KILL")
        ELSE counted

ScoreSystem_on_ufo_destroyed(ss) ==
    LET counted == [ss EXCEPT !.ufos_destroyed = @ + 1]
    IN  IF counted.ufos_destroyed >= 5
        THEN ScoreSystem_add_achievement(counted, "UFO_HUNTER")
        ELSE counted


\* list.sort(key=score, reverse=True) is stable: an entry goes after every
\* entry of the sorted prefix whose score is at least its own
InsertByScore(sorted, e) ==
    LET k == Cardinality({i \in 1..Len(sorted) : sorted[i].score >= e.score})
    IN  SubSeq(sorted, 1, k) \o <<e>> \o SubSeq(sorted, k + 1, Len(sorted))

RECURSIVE SortByScoreDesc(_)
SortByScoreDesc(s) ==
    IF s = <<>> THEN <<>>
    ELSE InsertByScore(SortByScoreDesc(SubSeq(s, 1, Len(s) - 1)), s[Len(s)])

ScoreSystem_add_high_score_NoSort(ss, name) ==
    LET new_entry == [name |-> name, score |-> ss.score]
        appended == Append(ss.high_scores, new_entry)
    IN  [ss EXCEPT !.high_scores = SubSeq(appended, 1, Min(10, Len(appended)))]

\* add_high_score(name); the entry's date and the file written are left out
ScoreSystem_add_high_score(ss, name) ==
    LET new_entry == [name |-> name, score |-> ss.score]
        sorted == SortByScoreDesc(Append(ss.high_scores, new_entry))
    IN  [ss EXCEPT !.high_scores = SubSeq(sorted, 1, Min(10, Len(sorted)))]

\* check_high_score()
ScoreSystem_check_high_score(ss) ==
    ss.score > ss.high_scores[Len(ss.high_scores)].score

-----------------------------------------------------------------------------
(* Asteroid (asteroid.py).  The asteroids group maps a slot to the object  *)
(* in it; kill() empties the slot, and a new object takes a free slot      *)
(* (Asteroid.containers, main.py).                                         *)

AsteroidTypes ==
    {ASTEROID_TYPE_REGULAR, ASTEROID_TYPE_EXPLOSIVE, ASTEROID_TYPE_ARMORED}

\* ASTEROID_MAX_RADIUS = ASTEROID_MIN_RADIUS * ASTEROID_KINDS * .60, times ten
ASTEROID_MAX_RADIUS_x10 == ASTEROID_MIN_RADIUS * ASTEROID_KINDS * 6

\* _get_score_value()
Asteroid_get_score_value(radius, asteroid_type) ==
    LET base_score ==
            IF radius * 10 >= ASTEROID_MAX_RADIUS_x10 THEN SCORE_LARGE_ASTEROID
            ELSE IF radius >= ASTEROID_MIN_RADIUS * 2
                 THEN SCORE_MEDIUM_ASTEROID
            ELSE SCORE_SMALL_ASTEROID
    IN  IF asteroid_type = ASTEROID_TYPE_EXPLOSIVE THEN (base_score * 15) \div 10
        ELSE IF asteroid_type = ASTEROID_TYPE_ARMORED THEN base_score * 2
        ELSE base_score

\* __init__(x, y, radius, asteroid_type): the object built
Asteroid_init(position, radius, asteroid_type) ==
    [ position |-> position,
      radius |-> radius,
      asteroid_type |-> asteroid_type,
      score_value |-> Asteroid_get_score_value(radius, asteroid_type),
      hits_remaining |-> IF asteroid_type = ASTEROID_TYPE_ARMORED
                         THEN ARMORED_HITS_REQUIRED ELSE 1 ]

FreeSlots(group) == (1..MaxAsteroids) \ DOMAIN group
LowestOf(S) == CHOOSE s \in S : \A t \in S : s <= t

\* the group with a new object added to it (a sprite joining its containers)
Added(group, object) ==
    LET slot == LowestOf(FreeSlots(group))
    IN  [s \in DOMAIN group \cup {slot} |->
            IF s = slot THEN object ELSE group[s]]

\* the group without the object in slot a (kill())
Killed(group, a) == [s \in DOMAIN group \ {a} |-> group[s]]

\* spawn_asteroid(size) of main.py: Asteroid(position.x, position.y, size)
\* joins the group; the edge position and the type are drawn at random
spawn_asteroid(group, position, size, asteroid_type) ==
    Added(group, Asteroid_init(position, size, asteroid_type))

\* the slots split() needs free for the children of the asteroid in slot a
SlotsNeeded(group, a) ==
    IF group[a].radius < ASTEROID_MIN_RADIUS THEN 0 ELSE 2

Asteroid_split_AlwaysChildren(group, a, new_type) ==
    LET self == group[a]
        a1 == Asteroid_init(self.position,
                            self.radius - ASTEROID_MIN_RADIUS, new_type)
    IN  Killed(Added(Added(group, a1), a1), a)

Asteroid_split_HalfRadius(group, a, new_type) ==
    LET self == group[a]
        a1 == Asteroid_init(self.position, self.radius \div 2, new_type)
    IN  IF self.radius < ASTEROID_MIN_RADIUS
        THEN Killed(group, a)
        ELSE Killed(Added(Added(group, a1), a1), a)

\* split(): the asteroids group after the call (the call returns True).
\* The children do not take the slot of the asteroid that splits.
Asteroid_split(group, a, new_type) ==
    LET self == group[a]
        a1 == Asteroid_init(self.position,
                            self.radius - ASTEROID_MIN_RADIUS, new_type)
        a2 == Asteroid_init(self.position,
                            self.radius - ASTEROID_MIN_RADIUS, new_type)
    IN  IF self.radius < ASTEROID_MIN_RADIUS
        THEN Killed(group, a)
        ELSE Killed(Added(Added(group, a1), a2), a)

\* hit() while the armor holds: the object after the call
ArmorHit(self) == [self EXCEPT !.hits_remaining = @ - 1]

Asteroid_hit_OneMore(group, a, new_type) ==
    LET self == group[a]
        armored == self.asteroid_type = ASTEROID_TYPE_ARMORED
        struck == IF armored THEN ArmorHit(self) ELSE self
        after == [group EXCEPT ![a] = struck]
    IN  IF armored /\ struck.hits_remaining >= 0
        THEN [asteroids |-> after, ret |-> FALSE, calls |-> {}, projectiles |-> 0]
        ELSE [asteroids |-> Asteroid_split(after, a, new_type), ret |-> TRUE,
              calls |-> {"split"}, projectiles |-> 0]

\* hit(): the asteroids group after the call, the value returned, the
\* methods called and the number of EnemyProjectile objects _explode() built
Asteroid_hit(group, a, new_type) ==
    LET self == group[a]
        armored == self.asteroid_type = ASTEROID_TYPE_ARMORED
        struck == IF armored THEN ArmorHit(self) ELSE self
        after == [group EXCEPT ![a] = struck]
    IN  IF armored /\ struck.hits_remaining > 0
        THEN [asteroids |-> after, ret |-> FALSE, calls |-> {},
              projectiles |-> 0]
        ELSE IF self.asteroid_type = ASTEROID_TYPE_EXPLOSIVE
        THEN [asteroids |-> Asteroid_split(after, a, new_type), ret |-> TRUE,
              calls |-> {"_explode", "split"},
              projectiles |-> EXPLOSIVE_PROJECTILE_COUNT]
        ELSE [asteroids |-> Asteroid_split(after, a, new_type), ret |-> TRUE,
              calls |-> {"split"}, projectiles |-> 0]

-----------------------------------------------------------------------------
(* Wave and LevelManager (level_manager.py), at DIFFICULTY_NORMAL, whose   *)
(* spawn_rate_multiplier is 1.0.  Probabilities are in hundredths.         *)

\* Wave.__init__; the name and the completed flag, which nothing reads, are
\* left out
Wave_init(asteroids_count, ufo_count, asteroid_size_distribution, boss) ==
    [ asteroids_count |-> asteroids_count,
      ufo_count |-> ufo_count,
      asteroid_size_distribution |-> asteroid_size_distribution,
      boss |-> boss,
      asteroids_spawned |-> 0,
      ufos_spawned |-> 0,
      asteroid_timer |-> 0,
      ufo_timer |-> 0 ]

\* is_complete, also asking for the ufos group to be empty
Wave_is_complete_NoUfoAlive(self, asteroid_count) ==
    /\ self.asteroids_spawned >= self.asteroids_count
    /\ self.ufos_spawned >= self.ufo_count
    /\ asteroid_count = 0
    /\ ufos = 0

\* Wave.is_complete(asteroid_count)
Wave_is_complete(self, asteroid_count) ==
    /\ self.asteroids_spawned >= self.asteroids_count
    /\ self.ufos_spawned >= self.ufo_count
    /\ asteroid_count = 0

\* Wave.get_next_asteroid_size() for the value random.random() returned
Wave_get_next_asteroid_size(self, roll) ==
    IF roll < self.asteroid_size_distribution[1] THEN ASTEROID_KINDS
    ELSE IF roll < self.asteroid_size_distribution[1]
                       + self.asteroid_size_distribution[2]
         THEN ASTEROID_KINDS - 1
    ELSE 1

\* _generate_level with the two boss compositions exchanged
GeneratedWaves_BossesExchanged(level) ==
    LET base_asteroids == 4 + level
        base_ufos == level \div 2
        \* 1.0 + (level - 1) * 0.1 and 1.0 + (level - 1) * 0.15
        asteroid_multiplier == 100 + (level - 1) * 10
        ufo_multiplier == 100 + (level - 1) * 15
        asteroid_count == Max(1, (base_asteroids * asteroid_multiplier) \div 100)
        ufo_count == Max(0, (base_ufos * ufo_multiplier) \div 100)
        three ==
            << Wave_init(asteroid_count, 0, <<70, 20, 10>>, FALSE),
               Wave_init(asteroid_count + 2, ufo_count, <<50, 30, 20>>, FALSE),
               Wave_init(asteroid_count + 4, ufo_count + 1, <<30, 40, 30>>,
                         FALSE) >>
    IN  IF level % 3 = 0
        THEN IF level % 6 # 0
             THEN Append(three, Wave_init(asteroid_count \div 2, ufo_count + 3,
                                          <<20, 30, 50>>, TRUE))
             ELSE Append(three, Wave_init(asteroid_count * 2, 1,
                                          <<60, 30, 10>>, TRUE))
        ELSE three

\* the waves _generate_level(level) builds
GeneratedWaves(level) ==
    LET base_asteroids == 4 + level
        base_ufos == level \div 2
        \* 1.0 + (level - 1) * 0.1 and 1.0 + (level - 1) * 0.15
        asteroid_multiplier == 100 + (level - 1) * 10
        ufo_multiplier == 100 + (level - 1) * 15
        asteroid_count == Max(1, (base_asteroids * asteroid_multiplier) \div 100)
        ufo_count == Max(0, (base_ufos * ufo_multiplier) \div 100)
        three ==
            << Wave_init(asteroid_count, 0, <<70, 20, 10>>, FALSE),
               Wave_init(asteroid_count + 2, ufo_count, <<50, 30, 20>>, FALSE),
               Wave_init(asteroid_count + 4, ufo_count + 1, <<30, 40, 30>>,
                         FALSE) >>
    IN  IF level % 3 = 0
        THEN IF level % 6 = 0
             THEN Append(three, Wave_init(asteroid_count \div 2, ufo_count + 3,
                                          <<20, 30, 50>>, TRUE))
             ELSE Append(three, Wave_init(asteroid_count * 2, 1,
                                          <<60, 30, 10>>, TRUE))
        ELSE three

\* _generate_level(level)
LevelManager_generate_level(self, level) ==
    [self EXCEPT !.waves = GeneratedWaves(level),
                 !.current_wave_index = 0,
                 !.level_complete = FALSE]

\* LevelManager.__init__
LevelManager_init ==
    LevelManager_generate_level(
        [ current_level |-> 1,
          current_wave_index |-> 0,
          waves |-> << >>,
          transition_active |-> FALSE,
          transition_timer |-> 0,
          transition_duration |-> 30,
          level_complete |-> FALSE,
          game_complete |-> FALSE ], 1)

\* a wave timer after dt; it is tracked down to -MaxOverdue
Elapsed(timer, dt) == Max(timer - dt, 0 - MaxOverdue)

\* the transition without the step to the next level
LevelManager_update_transition_SameLevel(self, dt) ==
    LET timed == [self EXCEPT !.transition_timer = @ - dt]
        shown == [timed EXCEPT !.transition_active = FALSE]
        next == shown
    IN  IF timed.transition_timer <= 0
        THEN IF shown.level_complete
             THEN IF next.current_level > 12
                  THEN [next EXCEPT !.game_complete = TRUE]
                  ELSE LevelManager_generate_level(next, next.current_level)
             ELSE shown
        ELSE timed

\* update(dt, asteroid_count, spawn_asteroid_func, spawn_ufo_func) while the
\* transition screen is shown
LevelManager_update_transition(self, dt) ==
    LET timed == [self EXCEPT !.transition_timer = @ - dt]
        shown == [timed EXCEPT !.transition_active = FALSE]
        next == [shown EXCEPT !.current_level = @ + 1]
    IN  IF timed.transition_timer <= 0
        THEN IF shown.level_complete
             THEN IF next.current_level > 12
                  THEN [next EXCEPT !.game_complete = TRUE]
                  ELSE LevelManager_generate_level(next, next.current_level)
             ELSE shown
        ELSE timed

\* update(): the branch taken when the current wave is complete
LevelManager_update_advance(self) ==
    LET moved == [self EXCEPT !.current_wave_index = @ + 1]
    IN  IF moved.current_wave_index >= Len(moved.waves)
        THEN [moved EXCEPT !.level_complete = TRUE,
                           !.transition_active = TRUE,
                           !.transition_timer = moved.transition_duration]
        ELSE [moved EXCEPT !.transition_active = TRUE,
                           !.transition_timer =
                               moved.transition_duration \div 2]

\* the spawning without the test of the asteroid quota
LevelManager_update_spawn_NoQuota(self, dt, roll) ==
    LET w == self.current_wave_index + 1
        current_wave == self.waves[w]
        timed == [current_wave EXCEPT !.asteroid_timer = Elapsed(@, dt),
                                      !.ufo_timer = Elapsed(@, dt)]
        asteroid_due == timed.asteroid_timer <= 0
        \* max(0.5, 2.0 - current_level * 0.1)
        after_asteroid ==
            IF asteroid_due
            THEN [timed EXCEPT
                     !.asteroid_timer = Max(5, 20 - self.current_level),
                     !.asteroids_spawned = @ + 1]
            ELSE timed
        ufo_due == /\ after_asteroid.ufos_spawned < after_asteroid.ufo_count
                   /\ after_asteroid.ufo_timer <= 0
        \* max(3.0, 8.0 - current_level * 0.5)
        after_ufo ==
            IF ufo_due
            THEN [after_asteroid EXCEPT
                     !.ufo_timer = Max(30, 80 - self.current_level * 5),
                     !.ufos_spawned = @ + 1]
            ELSE after_asteroid
    IN  [ self |-> [self EXCEPT !.waves[w] = after_ufo],
          size |-> IF asteroid_due
                   THEN Wave_get_next_asteroid_size(current_wave, roll) ELSE 0,
          ufo |-> ufo_due ]

\* update(): the spawning of the current wave.  size is 0 when
\* spawn_asteroid_func is not called.
LevelManager_update_spawn(self, dt, roll) ==
    LET w == self.current_wave_index + 1
        current_wave == self.waves[w]
        timed == [current_wave EXCEPT !.asteroid_timer = Elapsed(@, dt),
                                      !.ufo_timer = Elapsed(@, dt)]
        asteroid_due == /\ timed.asteroids_spawned < timed.asteroids_count
                        /\ timed.asteroid_timer <= 0
        \* max(0.5, 2.0 - current_level * 0.1)
        after_asteroid ==
            IF asteroid_due
            THEN [timed EXCEPT
                     !.asteroid_timer = Max(5, 20 - self.current_level),
                     !.asteroids_spawned = @ + 1]
            ELSE timed
        ufo_due == /\ after_asteroid.ufos_spawned < after_asteroid.ufo_count
                   /\ after_asteroid.ufo_timer <= 0
        \* max(3.0, 8.0 - current_level * 0.5)
        after_ufo ==
            IF ufo_due
            THEN [after_asteroid EXCEPT
                     !.ufo_timer = Max(30, 80 - self.current_level * 5),
                     !.ufos_spawned = @ + 1]
            ELSE after_asteroid
    IN  [ self |-> [self EXCEPT !.waves[w] = after_ufo],
          size |-> IF asteroid_due
                   THEN Wave_get_next_asteroid_size(current_wave, roll) ELSE 0,
          ufo |-> ufo_due ]

\* update(): the object after the call, the size handed to
\* spawn_asteroid_func (0: not called), whether spawn_ufo_func was called,
\* and the calls made with what they returned or were given
LevelManager_update(self, dt, asteroid_count, roll) ==
    LET complete ==
            Wave_is_complete(self.waves[self.current_wave_index + 1],
                             asteroid_count)
        spawned == LevelManager_update_spawn(self, dt, roll)
    IN  IF self.transition_active
        THEN [self |-> LevelManager_update_transition(self, dt),
              size |-> 0, ufo |-> FALSE, calls |-> {}]
        ELSE IF self.current_wave_index + 1 \notin DOMAIN self.waves
        THEN \* self.waves[self.current_wave_index] raises IndexError
             [self |-> self, size |-> 0, ufo |-> FALSE,
              calls |-> {<<"IndexError", TRUE>>}]
        ELSE IF complete
        THEN [self |-> LevelManager_update_advance(self),
              size |-> 0, ufo |-> FALSE,
              calls |-> {<<"is_complete", TRUE>>}]
        ELSE [self |-> spawned.self, size |-> spawned.size,
              ufo |-> spawned.ufo,
              calls |-> {<<"is_complete", FALSE>>}
                        \cup (IF spawned.size > 0
                              THEN {<<"spawn_asteroid_func", spawned.size>>}
                              ELSE {})
                        \cup (IF spawned.ufo
                              THEN {<<"spawn_ufo_func", 0>>} ELSE {})]

\* get_score_multiplier(), in hundredths, at DIFFICULTY_NORMAL, whose
\* score_multiplier is 1.0
LevelManager_get_score_multiplier(self) ==
    LET level_multiplier == Scale + (self.current_level - 1) * 10
        boss_multiplier ==
            IF self.waves[self.current_wave_index + 1].boss THEN 150
            ELSE Scale
    IN  (level_multiplier * boss_multiplier) \div Scale

-----------------------------------------------------------------------------
(* Player (player.py): the lives system, the power-ups and, for a record   *)
(* that carries them, the ammunition and the shot cooldown.  Position and  *)
(* rotation are left out.                                                  *)

\* Player.__init__
Player_init ==
    [ score |-> 0,
      active_powerups |-> << >>,
      is_invincible |-> FALSE,
      lives |-> PLAYER_INITIAL_LIVES,
      is_respawning |-> FALSE,
      respawn_timer |-> 0,
      spawn_invulnerability_timer |-> 0 ]

\* whether the record carries the ammunition fields; the specifications
\* about lives and power-ups leave them out
HasAmmo(self) == "current_ammo" \in DOMAIN self

\* Player.__init__ with current_ammo and ammo_recharge_timer, and the class
\* attribute Player.timer, the shot cooldown, in hundredths of a second
Player_init_with_ammo ==
    [ score |-> 0,
      active_powerups |-> << >>,
      is_invincible |-> FALSE,
      lives |-> PLAYER_INITIAL_LIVES,
      is_respawning |-> FALSE,
      respawn_timer |-> 0,
      spawn_invulnerability_timer |-> 0,
      current_ammo |-> AMMO_INITIAL,
      ammo_recharge_timer |-> 0,
      timer |-> 0 ]

\* the dictionary d with d[key] = value
DictSet(d, key, value) ==
    [k \in DOMAIN d \cup {key} |-> IF k = key THEN value ELSE d[k]]

\* update_powerups(dt)
Player_update_powerups(self, dt) ==
    LET timed == [k \in DOMAIN self.active_powerups |->
                     self.active_powerups[k] - dt]
        to_remove == {k \in DOMAIN timed : timed[k] <= 0}
        kept == [k \in DOMAIN timed \ to_remove |-> timed[k]]
    IN  [self EXCEPT !.active_powerups = kept,
                     !.is_invincible = POWERUP_INVINCIBILITY \in DOMAIN kept]

\* is_vulnerable() without the spawn invulnerability timer
Player_is_vulnerable_NoSpawnTimer(self) ==
    ~(self.is_invincible \/ self.is_respawning)

\* is_vulnerable()
Player_is_vulnerable(self) ==
    ~(\/ self.is_invincible
      \/ self.is_respawning
      \/ self.spawn_invulnerability_timer > 0)

\* lose_life() without its outer test of lives > 0
Player_lose_life_NoFloor(self) ==
    LET less == [self EXCEPT !.lives = @ - 1]
    IN  IF less.lives > 0
        THEN [self |-> [less EXCEPT !.is_respawning = TRUE,
                                    !.respawn_timer = PLAYER_RESPAWN_TIME],
              ret |-> FALSE]
        ELSE [self |-> less, ret |-> TRUE]

\* lose_life(): the object after the call and the value returned
Player_lose_life(self) ==
    LET less == [self EXCEPT !.lives = @ - 1]
    IN  IF self.lives > 0
        THEN IF less.lives > 0
             THEN [self |-> [less EXCEPT !.is_respawning = TRUE,
                                         !.respawn_timer = PLAYER_RESPAWN_TIME],
                   ret |-> FALSE]
             ELSE [self |-> less, ret |-> TRUE]
        ELSE [self |-> self, ret |-> TRUE]

\* respawn()
Player_respawn(self) ==
    LET respawned ==
            [self EXCEPT
                !.spawn_invulnerability_timer =
                    PLAYER_SPAWN_INVULNERABILITY_TIME,
                !.is_respawning = FALSE]
    IN  IF HasAmmo(self)
        THEN [respawned EXCEPT !.current_ammo = AMMO_INITIAL]
        ELSE respawned

\* update_respawn_state(dt)
Player_update_respawn_state(self, dt) ==
    LET timed == [self EXCEPT !.respawn_timer = @ - dt]
        respawned ==
            IF self.is_respawning
            THEN IF timed.respawn_timer <= 0 THEN Player_respawn(timed)
                 ELSE timed
            ELSE self
    IN  IF respawned.spawn_invulnerability_timer > 0
        THEN [respawned EXCEPT !.spawn_invulnerability_timer = @ - dt]
        ELSE respawned

\* update(dt): the ammo recharge
Player_recharge(self, dt) ==
    LET timed == [self EXCEPT !.ammo_recharge_timer = @ + dt]
    IN  IF self.current_ammo < AMMO_MAX_SHOTS
        THEN IF timed.ammo_recharge_timer >= AMMO_RECHARGE_RATE
             THEN [timed EXCEPT
                      !.ammo_recharge_timer = 0,
                      !.current_ammo =
                          Min(@ + AMMO_RECHARGE_AMOUNT, AMMO_MAX_SHOTS)]
             ELSE timed
        ELSE self

\* update(dt) with no key pressed
Player_update(self, dt) ==
    LET timed == Player_update_respawn_state(self, dt)
    IN  IF timed.is_respawning THEN timed
        ELSE Player_update_powerups(
                 IF HasAmmo(timed) THEN Player_recharge(timed, dt) ELSE timed,
                 dt)

\* shoot() without its test of current_ammo <= 0
Player_shoot_NoAmmoCheck(self) ==
    LET cooldown == IF POWERUP_FIRE_RATE \in DOMAIN self.active_powerups
                    THEN (PLAYER_SHOT_COUNTDOWN * POWERUP_FIRE_RATE_MULTIPLIER)
                             \div Scale
                    ELSE PLAYER_SHOT_COUNTDOWN
    IN  IF self.timer > 0 THEN self
        ELSE [self EXCEPT !.current_ammo = @ - 1, !.timer = cooldown]

\* shoot(): the player after the call; the Shoot it creates joins the
\* shots group
Player_shoot(self) ==
    LET cooldown == IF POWERUP_FIRE_RATE \in DOMAIN self.active_powerups
                    THEN (PLAYER_SHOT_COUNTDOWN * POWERUP_FIRE_RATE_MULTIPLIER)
                             \div Scale
                    ELSE PLAYER_SHOT_COUNTDOWN
    IN  IF self.timer > 0 THEN self
        ELSE IF self.current_ammo <= 0 THEN self
        ELSE [self EXCEPT !.current_ammo = @ - 1, !.timer = cooldown]

\* update(dt) with the space key pressed or not: Player.timer -= dt comes
\* first and shoot() last, unless the player is respawning.  The timer
\* only ever is compared with 0, so it stops falling at -MaxOverdue.
\* The result is the player after the call and whether a Shoot was built.
Player_update_keys(self, dt, space) ==
    LET cooled == [self EXCEPT
                      !.timer = Max(@ - 10 * dt, 0 - MaxOverdue)]
        updated == Player_update(cooled, dt)
        shooting == ~updated.is_respawning /\ space
    IN  [ self |-> IF shooting THEN Player_shoot(updated) ELSE updated,
          shot |-> shooting /\ Player_shoot(updated) # updated ]

\* PowerUp.apply_effect(player) of powerup.py for a power-up of the given
\* type: the player after the call
PowerUp_apply_effect(powerup_type, self) ==
    IF powerup_type = POWERUP_FIRE_RATE
    THEN [self EXCEPT !.active_powerups =
             DictSet(@, POWERUP_FIRE_RATE, POWERUP_FIRE_RATE_DURATION)]
    ELSE IF powerup_type = POWERUP_SCORE
    THEN [self EXCEPT !.score = @ + POWERUP_SCORE_AMOUNT]
    ELSE IF powerup_type = POWERUP_INVINCIBILITY
    THEN [self EXCEPT !.active_powerups =
             DictSet(@, POWERUP_INVINCIBILITY, POWERUP_INVINCIBILITY_DURATION)]
    ELSE IF powerup_type = POWERUP_AMMO /\ HasAmmo(self)
    THEN [self EXCEPT !.current_ammo =
             Min(@ + POWERUP_AMMO_AMOUNT, AMMO_MAX_SHOTS)]
    ELSE self

-----------------------------------------------------------------------------
(* GameStateManager (game_state.py): the state and its transition.  The    *)
(* score_system it owns is the variable score_system.                      *)

\* self.transition_speed = 5
transition_speed == 5

\* GameStateManager.__init__; transitioning_to = None is "None", and
\* player_name is the sequence of its characters
GameStateManager_init ==
    [ current_state |-> "MENU",
      selected_option |-> 0,
      entering_name |-> FALSE,
      player_name |-> << >>,
      transition_alpha |-> 0,
      transitioning_to |-> "None" ]

\* change_state(new_state)
\* change_state switching the state at once
GameStateManager_change_state_AtOnce(self, new_state) ==
    [self EXCEPT !.current_state = new_state,
                 !.transition_alpha = 0,
                 !.transitioning_to = new_state,
                 !.selected_option = 0]

GameStateManager_change_state(self, new_state) ==
    [self EXCEPT !.transition_alpha = 0,
                 !.transitioning_to = new_state,
                 !.selected_option = 0]

\* update(dt): the manager and its score system after the call; the cursor
\* of the name entry belongs to the display and is left out
GameStateManager_update(self, ss, dt) ==
    LET risen == self.transition_alpha + transition_speed
        fallen == Max(self.transition_alpha - transition_speed, 0)
    IN  IF self.transitioning_to # "None"
        THEN [self |->
                 IF risen >= 255
                 THEN [self EXCEPT !.current_state = self.transitioning_to,
                                   !.transitioning_to = "None",
                                   !.transition_alpha = 255]
                 ELSE [self EXCEPT !.transition_alpha = risen],
              score_system |-> ss]
        ELSE [self |-> IF self.transition_alpha > 0
                       THEN [self EXCEPT !.transition_alpha = fallen]
                       ELSE self,
              score_system |-> ScoreSystem_update(ss, dt)]

\* on_game_over(score)
GameStateManager_on_game_over(self, ss) ==
    LET changed == GameStateManager_change_state(self, "GAME_OVER")
    IN  IF ScoreSystem_check_high_score(ss)
        THEN [changed EXCEPT !.entering_name = TRUE, !.player_name = << >>]
        ELSE changed

\* _init_menus: the types of the options of the three menus
menu_options == <<"START_GAME", "HIGH_SCORES", "HELP", "CREDITS", "QUIT">>
pause_options == <<"RESUME", "RESTART", "BACK_TO_MENU", "QUIT">>
game_over_options == <<"RESTART", "HIGH_SCORES", "BACK_TO_MENU", "QUIT">>

\* the keys of the KEYDOWN events; "P" is also the one key whose
\* event.unicode is alphanumeric
KeysDown == {"UP", "DOWN", "RETURN", "ESCAPE", "P", "BACKSPACE"}

\* what a handler leaves and returns: True and False are "True" and
\* "False", a dictionary {"restart": True} is its key
Handled(self, ss, ret) == [self |-> self, score_system |-> ss, ret |-> ret]

\* K_UP and K_DOWN in a menu of the given options
MenuMove(self, key, options) ==
    [self EXCEPT !.selected_option =
        IF key = "UP" THEN (@ - 1) % Len(options) ELSE (@ + 1) % Len(options)]

\* _handle_menu_input(event)
GameStateManager_handle_menu_input(self, ss, key) ==
    LET option == menu_options[self.selected_option + 1]
    IN  IF key \in {"UP", "DOWN"}
        THEN Handled(MenuMove(self, key, menu_options), ss, "True")
        ELSE IF key = "RETURN"
        THEN IF option = "START_GAME"
             THEN Handled(GameStateManager_change_state(self, "PLAYING"),
                          ScoreSystem_reset(ss), "True")
             ELSE IF option \in {"HIGH_SCORES", "HELP", "CREDITS"}
             THEN Handled(GameStateManager_change_state(self, option), ss,
                          "True")
             ELSE Handled(self, ss, "True")
        ELSE Handled(self, ss, "False")

\* _handle_pause_input(event)
GameStateManager_handle_pause_input(self, ss, key) ==
    LET option == pause_options[self.selected_option + 1]
    IN  IF key \in {"UP", "DOWN"}
        THEN Handled(MenuMove(self, key, pause_options), ss, "True")
        ELSE IF key = "RETURN"
        THEN IF option = "RESUME"
             THEN Handled(GameStateManager_change_state(self, "PLAYING"), ss,
                          "True")
             ELSE IF option = "RESTART"
             THEN Handled(GameStateManager_change_state(self, "PLAYING"),
                          ScoreSystem_reset(ss), "restart")
             ELSE IF option = "BACK_TO_MENU"
             THEN Handled(GameStateManager_change_state(self, "MENU"), ss,
                          "back_to_menu")
             ELSE Handled(self, ss, "quit")
        ELSE IF key = "ESCAPE"
        THEN Handled(GameStateManager_change_state(self, "PLAYING"), ss,
                     "True")
        ELSE Handled(self, ss, "False")

\* _handle_game_over_input(event)
GameStateManager_handle_game_over_input(self, ss, key) ==
    LET option == game_over_options[self.selected_option + 1]
    IN  IF key \in {"UP", "DOWN"}
        THEN Handled(MenuMove(self, key, game_over_options), ss, "True")
        ELSE IF key = "RETURN"
        THEN IF option = "RESTART"
             THEN Handled(GameStateManager_change_state(self, "PLAYING"),
                          ScoreSystem_reset(ss), "restart")
             ELSE IF option = "HIGH_SCORES"
             THEN Handled(GameStateManager_change_state(self, "HIGH_SCORES"),
                          ss, "True")
             ELSE IF option = "BACK_TO_MENU"
             THEN Handled(GameStateManager_change_state(self, "MENU"), ss,
                          "back_to_menu")
             ELSE Handled(self, ss, "quit")
        ELSE Handled(self, ss, "False")

\* _handle_name_entry_input(event)
GameStateManager_handle_name_entry_input(self, ss, key) ==
    IF key = "RETURN"
    THEN IF self.player_name # << >>
         THEN Handled(GameStateManager_change_state(
                          [self EXCEPT !.entering_name = FALSE],
                          "HIGH_SCORES"),
                      ScoreSystem_add_high_score(ss, self.player_name),
                      "True")
         ELSE Handled(self, ss, "True")
    ELSE IF key = "BACKSPACE"
    THEN Handled([self EXCEPT !.player_name =
                     IF @ = << >> THEN @ ELSE SubSeq(@, 1, Len(@) - 1)],
                 ss, "True")
    ELSE IF key = "ESCAPE"
    THEN Handled([self EXCEPT !.entering_name = FALSE], ss, "True")
    ELSE IF Len(self.player_name) < 3 /\ key = "P"
    THEN Handled([self EXCEPT !.player_name = Append(@, key)], ss, "True")
    ELSE Handled(self, ss, "False")

\* handle_event(event) for a KEYDOWN event of the given key
GameStateManager_handle_event(self, ss, key) ==
    IF self.transitioning_to # "None" THEN Handled(self, ss, "False")
    ELSE IF self.current_state = "MENU"
    THEN GameStateManager_handle_menu_input(self, ss, key)
    ELSE IF self.current_state = "PAUSED"
    THEN GameStateManager_handle_pause_input(self, ss, key)
    ELSE IF self.current_state = "GAME_OVER"
    THEN IF self.entering_name
         THEN GameStateManager_handle_name_entry_input(self, ss, key)
         ELSE GameStateManager_handle_game_over_input(self, ss, key)
    ELSE IF self.current_state \in {"HIGH_SCORES", "HELP", "CREDITS"}
    THEN Handled(IF key \in {"ESCAPE", "RETURN"}
                 THEN GameStateManager_change_state(self, "MENU") ELSE self,
                 ss, "False")
    ELSE IF self.current_state = "PLAYING" /\ key \in {"ESCAPE", "P"}
    THEN Handled(GameStateManager_change_state(self, "PAUSED"), ss, "True")
    ELSE Handled(self, ss, "False")

-----------------------------------------------------------------------------
(* The objects as constructed *)

\* shots = pygame.sprite.Group()
NoShots == [on_screen |-> 0, off_screen |-> 0]

\* the sprite groups, the player, the state manager and main()'s locals
InitWorld ==
    /\ asteroids = <<>>
    /\ ufos = 0
    /\ enemy_projectiles = 0
    /\ shots = NoShots
    /\ powerups = {}
    /\ player = Player_init
    /\ gsm = GameStateManager_init
    /\ loop = [pc |-> "events", dt |-> 0, running |-> TRUE,
               game_initialized |-> FALSE, frame_lives |-> 0]
    /\ last = Call("init", <<>>, FALSE)

InitObjects ==
    /\ InitWorld
    /\ level_manager = LevelManager_init

-----------------------------------------------------------------------------
(* SpecScore: the ScoreSystem object under any sequence of add_score,      *)
(* update, on_player_hit and reset.                                        *)

\* score values of asteroids handed to add_score
Points == {SCORE_SMALL_ASTEROID, SCORE_LARGE_ASTEROID}
\* level multipliers handed to add_score: level 1, and a boss wave of level 2
LevelMultipliers == {100, 165}

InitScore ==
    /\ score_system = ScoreSystem_init(DefaultHighScores)
    /\ InitObjects

add_score(points, level_multiplier) ==
    /\ score_system.score
         + AdjustedScore(score_system, points, level_multiplier) <= MaxScore
    /\ score_system' =
           ScoreSystem_add_score(score_system, points, level_multiplier)
    /\ last' = Call("add_score", <<points, level_multiplier>>,
                    AdjustedScore(score_system, points, level_multiplier))
    /\ UNCHANGED <<shots, asteroids, ufos, enemy_projectiles, powerups,
                   level_manager, player, gsm, loop>>

update(dt) ==
    /\ score_system' = ScoreSystem_update(score_system, dt)
    /\ last' = Call("update", <<dt>>, FALSE)
    /\ UNCHANGED <<shots, asteroids, ufos, enemy_projectiles, powerups,
                   level_manager, player, gsm, loop>>

on_player_hit ==
    /\ score_system' = ScoreSystem_on_player_hit(score_system)
    /\ last' = Call("on_player_hit", <<>>, FALSE)
    /\ UNCHANGED <<shots, asteroids, ufos, enemy_projectiles, powerups,
                   level_manager, player, gsm, loop>>

reset ==
    /\ score_system' = ScoreSystem_reset(score_system)
    /\ last' = Call("reset", <<>>, FALSE)
    /\ UNCHANGED <<shots, asteroids, ufos, enemy_projectiles, powerups,
                   level_manager, player, gsm, loop>>

NextScore ==
    \/ \E points \in Points, m \in LevelMultipliers : add_score(points, m)
    \/ \E dt \in Dts : update(dt)
    \/ on_player_hit
    \/ reset

SpecScore == InitScore /\ [][NextScore]_vars

\* C4: in every state reachable by add_score, update, on_player_hit and
\* reset, combo_multiplier is the step function of combo_count: 4.0 from 10,
\* 3.0 from 7, 2.5 from 5, 2.0 from 3, 1.5 from 2, else 1.0.
C4_ComboMultiplierIsStepOfCount ==
    LET count == score_system.combo_count
    IN  score_system.combo_multiplier =
            IF count >= 10 THEN 400
            ELSE IF count >= 7 THEN 300
            ELSE IF count >= 5 THEN 250
            ELSE IF count >= 3 THEN 200
            ELSE IF count >= 2 THEN 150
            ELSE 100

\* a chain of ten hits has just been extended
C4_Witness ==
    /\ last.op = "add_score"
    /\ score_system.combo_count >= 10
    /\ score_system.combo_multiplier = 400

\* C5: whenever combo_count is 5 or more, COMBO_MASTER is among the
\* achievements.
C5_ComboMasterFromFive ==
    score_system.combo_count >= 5
        => "COMBO_MASTER" \in score_system.achievements

\* a chain that has grown past the branch that awards the achievement
C5_Witness ==
    /\ score_system.combo_count >= 7
    /\ "COMBO_MASTER" \in score_system.achievements

-----------------------------------------------------------------------------
(* SpecHighScores: the high-score table under add_high_score, with the     *)
(* score moved by UFO kills and new games.  The table starts as            *)
(* _load_high_scores returns it: the default table, or whatever            *)
(* high_scores.json holds (the file is not validated).                     *)

\* a table written by earlier sessions: ten entries, sorted
StoredTable ==
    << [name |-> "ZED", score |-> 750], [name |-> "ZED", score |-> 750],
       [name |-> "YOU", score |-> 300], [name |-> "YOU", score |-> 300],
       [name |-> "YOU", score |-> 300], [name |-> "ZED", score |-> 300],
       [name |-> "ZED", score |-> 0], [name |-> "ZED", score |-> 0],
       [name |-> "ZED", score |-> 0], [name |-> "YOU", score |-> 0] >>

\* a file edited by hand: eleven entries, out of order
EditedTable ==
    << [name |-> "ZED", score |-> 300], [name |-> "ZED", score |-> 750],
       [name |-> "YOU", score |-> 0], [name |-> "YOU", score |-> 300],
       [name |-> "YOU", score |-> 750], [name |-> "ZED", score |-> 300],
       [name |-> "ZED", score |-> 0], [name |-> "ZED", score |-> 0],
       [name |-> "ZED", score |-> 0], [name |-> "YOU", score |-> 0],
       [name |-> "YOU", score |-> 750] >>

LoadedTables == {DefaultHighScores, StoredTable, EditedTable}

\* names typed at the name entry
Names == {"AAA", "YOU"}

InitHighScores ==
    /\ \E table \in LoadedTables : score_system = ScoreSystem_init(table)
    /\ InitObjects

add_high_score(name) ==
    /\ score_system' = ScoreSystem_add_high_score(score_system, name)
    /\ last' = Call("add_high_score", <<name>>, FALSE)
    /\ UNCHANGED <<shots, asteroids, ufos, enemy_projectiles, powerups,
                   level_manager, player, gsm, loop>>

NextHighScores ==
    \/ add_score(UFO_SCORE, 100)
    \/ reset
    \/ \E name \in Names : add_high_score(name)

SpecHighScores == InitHighScores /\ [][NextHighScores]_vars

\* C7: after any call to add_high_score the table has at most 10 entries
\* and is sorted in non-increasing order of score, whatever it held before.
C7_HighScoresSortedAndCapped ==
    last.op = "add_high_score" =>
        LET t == score_system.high_scores
        IN  /\ Len(t) <= 10
            /\ \A i \in 1..(Len(t) - 1) : t[i].score >= t[i + 1].score

\* the score just entered went between the entries of a full table, and the
\* table's lowest entry was dropped
C7_Witness ==
    LET t == score_system.high_scores
    IN  /\ last.op = "add_high_score"
        /\ Len(t) = 10
        /\ \E i \in 2..9 : /\ t[i].score = score_system.score
                           /\ t[i - 1].score > t[i].score
                           /\ t[i].score > t[i + 1].score

-----------------------------------------------------------------------------
(* SpecAsteroid: an asteroid is built, hit by shots and split, and so are  *)
(* the asteroids it splits into; the next one is built when the group is   *)
(* empty again.                                                            *)

\* radii handed to the constructor: around the minimum radius, and a size
\* whose children can split again
Radii == {ASTEROID_MIN_RADIUS - 1, ASTEROID_MIN_RADIUS, 2 * ASTEROID_MIN_RADIUS}
\* places on the screen
Positions == {1, 2}

InitAsteroid ==
    /\ score_system = ScoreSystem_init(DefaultHighScores)
    /\ InitObjects

\* Asteroid(x, y, radius): the type is drawn by random.choices
NewAsteroid(position, radius, asteroid_type) ==
    /\ asteroids = << >>
    /\ asteroids' =
           Added(asteroids, Asteroid_init(position, radius, asteroid_type))
    /\ last' = Call("Asteroid", <<position, radius>>, FALSE)
    /\ UNCHANGED <<shots, score_system, ufos, enemy_projectiles, powerups,
                   level_manager, player, gsm, loop>>

\* asteroid.hit() on the asteroid in slot a; new_type is the type split()
\* draws for the children
hit(a, new_type) ==
    LET result == Asteroid_hit(asteroids, a, new_type)
    IN  /\ Cardinality(FreeSlots(asteroids)) >= SlotsNeeded(asteroids, a)
        /\ enemy_projectiles + result.projectiles <= MaxProjectiles
        /\ asteroids' = result.asteroids
        /\ enemy_projectiles' = enemy_projectiles + result.projectiles
        /\ last' = CallWith("hit", <<a, asteroids[a]>>, result.ret,
                            result.calls)
        /\ UNCHANGED <<shots, score_system, ufos, powerups, level_manager, player,
                   gsm, loop>>

\* EnemyProjectile.update: a projectile that left the screen is killed
projectile_off_screen ==
    /\ enemy_projectiles > 0
    /\ enemy_projectiles' = enemy_projectiles - 1
    /\ last' = Call("EnemyProjectile.update", <<>>, FALSE)
    /\ UNCHANGED <<shots, score_system, asteroids, ufos, powerups, level_manager,
                   player, gsm, loop>>

NextAsteroid ==
    \/ \E position \in Positions, radius \in Radii, t \in AsteroidTypes :
           NewAsteroid(position, radius, t)
    \/ \E a \in DOMAIN asteroids, new_type \in AsteroidTypes : hit(a, new_type)
    \/ projectile_off_screen

SpecAsteroid == InitAsteroid /\ [][NextAsteroid]_vars

\* C1: split() on an asteroid whose radius is below ASTEROID_MIN_RADIUS
\* removes that asteroid from the asteroids group and creates no child: the
\* group afterwards is the group before without the asteroid.
C1_SplitBelowMinRemovesOnly ==
    [][ (last'.op = "hit" /\ "split" \in last'.calls) =>
          LET a == last'.args[1]
          IN  asteroids[a].radius < 18 =>
                  /\ a \notin DOMAIN asteroids'
                  /\ DOMAIN asteroids' = DOMAIN asteroids \ {a}
                  /\ \A s \in DOMAIN asteroids' : asteroids'[s] = asteroids[s]
      ]_vars

\* an asteroid built just under the minimum radius was shot and is gone,
\* leaving nothing behind
C1_Witness ==
    /\ last.op = "hit"
    /\ "split" \in last.calls
    /\ last.args[2].radius = 17
    /\ asteroids = << >>

\* C2: split() on an asteroid whose radius is not below ASTEROID_MIN_RADIUS
\* removes the parent and creates exactly two children, both at the parent's
\* position and with the parent's radius minus ASTEROID_MIN_RADIUS; every
\* other asteroid stays as it was.
C2_SplitMakesTwoChildren ==
    [][ (last'.op = "hit" /\ "split" \in last'.calls) =>
          LET a == last'.args[1]
              parent == asteroids[a]
              children == DOMAIN asteroids' \ DOMAIN asteroids
          IN  parent.radius >= 18 =>
                  /\ a \notin DOMAIN asteroids'
                  /\ Cardinality(children) = 2
                  /\ \A c \in children :
                         /\ asteroids'[c].position = parent.position
                         /\ asteroids'[c].radius = parent.radius - 18
                  /\ \A s \in DOMAIN asteroids \ {a} :
                         s \in DOMAIN asteroids' /\ asteroids'[s] = asteroids[s]
      ]_vars

\* a child of exactly the minimum radius was shot next to its sibling: the
\* sibling is still there and the two new children have radius 0
C2_Witness ==
    /\ last.op = "hit"
    /\ "split" \in last.calls
    /\ last.args[2].radius = 18
    /\ last.args[2].position = 2
    /\ Cardinality(DOMAIN asteroids) = 3
    /\ Cardinality({s \in DOMAIN asteroids :
                        /\ asteroids[s].radius = 0
                        /\ asteroids[s].position = 2}) = 2

\* C3: hit() on an Armored asteroid with hits_remaining = K >= 1: while
\* K > 1 the call returns False, does not run split() and leaves the
\* asteroid in the group with hits_remaining = K - 1; with K = 1 the call
\* runs split(), returns True and the asteroid is gone.  So the K-th call,
\* and no earlier one, destroys it.
C3_ArmoredTakesKHits ==
    [][ last'.op = "hit" =>
          LET a == last'.args[1]
              self == asteroids[a]
              K == self.hits_remaining
          IN  (self.asteroid_type = 2 /\ K >= 1) =>
                  IF K > 1
                  THEN /\ last'.ret = FALSE
                       /\ "split" \notin last'.calls
                       /\ a \in DOMAIN asteroids'
                       /\ asteroids'[a] = [self EXCEPT !.hits_remaining = K - 1]
                  ELSE /\ last'.ret = TRUE
                       /\ "split" \in last'.calls
                       /\ a \notin DOMAIN asteroids'
      ]_vars

\* the third hit on an Armored asteroid: its armor was down to one hit, the
\* call returned True and its two children are in the group
C3_Witness ==
    /\ last.op = "hit"
    /\ last.args[2].asteroid_type = 2
    /\ last.args[2].hits_remaining = 1
    /\ last.args[2].radius = 36
    /\ last.ret = TRUE
    /\ last.args[1] \notin DOMAIN asteroids
    /\ Cardinality(DOMAIN asteroids) = 2

-----------------------------------------------------------------------------
(* SpecLevel: a level played as main() drives it: LevelManager.update      *)
(* with the size of the asteroids group and the two spawn functions, and   *)
(* shots that destroy asteroids and UFOs.                                  *)

\* the levels played: the first one, and the first one with a UFO fleet
Levels == {1, 6}
\* the last level, and the level number the manager holds once it is over
LastLevels == {12, 13}
\* the values random.random() returns in get_next_asteroid_size
Rolls == {10, 95}
\* the frame times of a level: the timers of a wave run in whole steps
LevelDts == {2 * DtStep}

\* the LevelManager as a level begins
LevelManager_at(level) ==
    LevelManager_generate_level(
        [LevelManager_init EXCEPT !.current_level = level], level)

InitLevel ==
    /\ score_system = ScoreSystem_init(DefaultHighScores)
    /\ InitWorld
    /\ \E level \in Levels : level_manager = LevelManager_at(level)

\* main(): level_manager.update(dt, len(asteroids), spawn_asteroid,
\* spawn_ufo); the asteroids spawn_asteroid builds are Regular ones
level_manager_update(dt, roll) ==
    LET asteroid_count == Cardinality(DOMAIN asteroids)
        result == LevelManager_update(level_manager, dt, asteroid_count, roll)
    IN  /\ loop.running
        /\ level_manager.current_level \in Levels \cup LastLevels
        /\ result.size > 0 => asteroid_count < MaxLive
        /\ result.ufo => ufos < MaxUfos
        /\ level_manager' = result.self
        /\ asteroids' =
               IF result.size > 0
               THEN spawn_asteroid(asteroids, 1, result.size,
                                   ASTEROID_TYPE_REGULAR)
               ELSE asteroids
        /\ ufos' = IF result.ufo THEN ufos + 1 ELSE ufos
        /\ last' = CallWith("LevelManager.update", <<dt, asteroid_count>>,
                            FALSE, result.calls)
        \* nothing in main() catches the exception: the program ends
        /\ loop' = [loop EXCEPT
                        !.running = <<"IndexError", TRUE>> \notin result.calls]
        /\ UNCHANGED <<shots, score_system, enemy_projectiles, powerups, player,
                       gsm>>

\* ufo.kill() for a UFO a shot collides with
ufo_kill ==
    /\ ufos > 0
    /\ ufos' = ufos - 1
    /\ last' = Call("ufo.kill", <<>>, FALSE)
    /\ UNCHANGED <<shots, score_system, asteroids, enemy_projectiles, powerups,
                   level_manager, player, gsm, loop>>

NextLevel ==
    \/ \E dt \in LevelDts, roll \in Rolls : level_manager_update(dt, roll)
    \/ \E a \in DOMAIN asteroids : hit(a, ASTEROID_TYPE_REGULAR)
    \/ ufo_kill

SpecLevel == InitLevel /\ [][NextLevel]_vars

\* the last level played to its end, and the frames that follow it
InitLastLevel ==
    /\ score_system = ScoreSystem_init(DefaultHighScores)
    /\ InitWorld
    /\ level_manager = LevelManager_at(12)

SpecLastLevel == InitLastLevel /\ [][NextLevel]_vars

C8_UfosToCome ==
    LET wave == level_manager.waves[level_manager.current_wave_index + 1]
    IN  /\ last.op = "LevelManager.update"
        /\ <<"is_complete", FALSE>> \in last.calls
        /\ last.args[2] = 0
        /\ wave.boss
        /\ wave.asteroids_spawned >= wave.asteroids_count
        /\ wave.ufos_spawned < wave.ufo_count

-----------------------------------------------------------------------------
(* SpecPlayer: the Player object under any sequence of lose_life, update   *)
(* and power-ups applied to it.                                            *)

PowerupTypes ==
    {POWERUP_AMMO, POWERUP_FIRE_RATE, POWERUP_SCORE, POWERUP_INVINCIBILITY}

InitPlayer ==
    /\ score_system = ScoreSystem_init(DefaultHighScores)
    /\ InitObjects

\* player.lose_life()
lose_life ==
    LET result == Player_lose_life(player)
    IN  /\ player' = result.self
        /\ last' = Call("lose_life", <<player>>, result.ret)
        /\ UNCHANGED <<shots, score_system, asteroids, ufos, enemy_projectiles,
                       powerups, level_manager, gsm, loop>>

\* player.update(dt)
player_update(dt) ==
    /\ player' = Player_update(player, dt)
    /\ last' = Call("Player.update", <<dt>>, FALSE)
    /\ UNCHANGED <<shots, score_system, asteroids, ufos, enemy_projectiles, powerups,
                   level_manager, gsm, loop>>

\* powerup.apply_effect(player)
apply_effect(powerup_type) ==
    /\ powerup_type = POWERUP_SCORE
           => player.score + POWERUP_SCORE_AMOUNT <= MaxScore
    /\ player' = PowerUp_apply_effect(powerup_type, player)
    /\ last' = Call("apply_effect", <<powerup_type>>, FALSE)
    /\ UNCHANGED <<shots, score_system, asteroids, ufos, enemy_projectiles, powerups,
                   level_manager, gsm, loop>>

NextPlayer ==
    \/ lose_life
    \/ \E dt \in Dts : player_update(dt)
    \/ \E powerup_type \in PowerupTypes : apply_effect(powerup_type)

SpecPlayer == InitPlayer /\ [][NextPlayer]_vars

\* C9: lose_life() with lives = 1 sets lives to 0, returns True and does
\* not set is_respawning (the respawn fields stay as they were); with
\* lives > 1 it takes one life, returns False, sets is_respawning and sets
\* respawn_timer to PLAYER_RESPAWN_TIME; with lives = 0 it changes nothing
\* and returns True.  lives is never negative.
C9_LoseLife ==
    [][ /\ player'.lives >= 0
        /\ last'.op = "lose_life" =>
               IF player.lives > 1
               THEN /\ player'.lives = player.lives - 1
                    /\ last'.ret = FALSE
                    /\ player'.is_respawning
                    /\ player'.respawn_timer = 20
               ELSE /\ player'.lives = 0
                    /\ last'.ret = TRUE
                    /\ player'.is_respawning = player.is_respawning
                    /\ player'.respawn_timer = player.respawn_timer
      ]_vars

\* the last life was lost by a player who was not respawning: the call
\* returned True and no respawn is under way
C9_Witness ==
    /\ last.op = "lose_life"
    /\ last.args[1].lives = 1
    /\ ~last.args[1].is_respawning
    /\ last.ret = TRUE
    /\ player.lives = 0
    /\ ~player.is_respawning

-----------------------------------------------------------------------------
(* Spec: the frames of a game in progress, as main()'s loop runs them for  *)
(* the player: game_state_manager.update, the update of the objects, the   *)
(* power-ups picked up and the three collision passes.  The field is the   *)
(* one the game has reached; spawning and the shots' collisions, which     *)
(* leave the player alone, are in SpecLevel and SpecAsteroid.              *)

\* the asteroids, UFOs, enemy projectiles and power-ups of the field
FieldAsteroids ==
    { << >>,
      << Asteroid_init(1, ASTEROID_KINDS, ASTEROID_TYPE_REGULAR) >> }
FieldUfos == {0, 1}
FieldProjectiles == {0, MaxProjectiles}
FieldPowerups == { {}, {POWERUP_INVINCIBILITY} }

Init ==
    /\ score_system = ScoreSystem_init(DefaultHighScores)
    /\ asteroids \in FieldAsteroids
    /\ ufos \in FieldUfos
    /\ enemy_projectiles \in FieldProjectiles
    /\ shots = NoShots
    /\ powerups \in FieldPowerups
    /\ level_manager = LevelManager_init
    /\ player = Player_init
    /\ gsm = [GameStateManager_init EXCEPT !.current_state = "PLAYING"]
    /\ loop = [pc |-> "gsm_update", dt |-> 0, running |-> TRUE,
               game_initialized |-> TRUE,
               frame_lives |-> PLAYER_INITIAL_LIVES]
    /\ last = Call("init", <<>>, FALSE)

\* init_game_objects(difficulty) and LevelManager(difficulty): empty
\* groups, a new Player and a new LevelManager
init_game_objects ==
    /\ asteroids' = << >>
    /\ ufos' = 0
    /\ enemy_projectiles' = 0
    /\ shots' = NoShots
    /\ powerups' = {}
    /\ player' = Player_init
    /\ level_manager' = LevelManager_init

\* game_state_manager.update(dt), the test of the state that follows and,
\* in the PLAYING state, the initialisation of a game not yet initialised
\* (then: the step of the PLAYING branch that follows)
gsm_update_then(then) ==
    LET result == GameStateManager_update(gsm, score_system, loop.dt)
        playing == result.self.current_state = "PLAYING"
    IN  /\ loop.pc = "gsm_update"
        /\ gsm' = result.self
        /\ score_system' = result.score_system
        /\ loop' = [loop EXCEPT !.pc = IF playing THEN then ELSE "tick",
                                !.game_initialized = @ \/ playing]
        /\ last' = Call("GameStateManager.update", <<loop.dt>>, FALSE)
        /\ IF playing /\ ~loop.game_initialized
           THEN init_game_objects
           ELSE UNCHANGED <<shots, asteroids, ufos, enemy_projectiles, powerups,
                            level_manager, player>>

\* the same, in the specifications whose field of enemies is given: the
\* level manager spawns nothing there and its update is left out
gsm_update == gsm_update_then("objects")

\* updatable.update(dt), for the player
objects_update ==
    /\ loop.pc = "objects"
    /\ player' = Player_update(player, loop.dt)
    /\ loop' = [loop EXCEPT !.pc = "powerups"]
    /\ last' = Call("updatable.update", <<loop.dt>>, FALSE)
    /\ UNCHANGED <<shots, score_system, asteroids, ufos, enemy_projectiles, powerups,
                   level_manager, gsm>>

\* the player after the effects of the power-ups in S
RECURSIVE ApplyEffects(_, _)
ApplyEffects(S, self) ==
    IF S = {} THEN self
    ELSE LET powerup_type == LowestOf(S)
         IN  ApplyEffects(S \ {powerup_type},
                          PowerUp_apply_effect(powerup_type, self))

\* the pass over the power-ups: those colliding with the player are
\* applied and killed
pass_powerups(colliding) ==
    /\ loop.pc = "powerups"
    /\ player' = ApplyEffects(colliding, player)
    /\ powerups' = powerups \ colliding
    /\ loop' = [loop EXCEPT !.pc = "pass_asteroids"]
    /\ last' = Call("pass_powerups", <<colliding>>, FALSE)
    /\ UNCHANGED <<shots, score_system, asteroids, ufos, enemy_projectiles,
                   level_manager, gsm>>

\* the body of a collision pass: entered when the player is vulnerable
\* and an object of the group collides
PlayerHit(colliding) ==
    LET struck == Player_is_vulnerable(player) /\ colliding
        ss == ScoreSystem_on_player_hit(score_system)
        result == Player_lose_life(player)
        game_over == result.ret
    IN  [ struck |-> struck,
          score_system |-> IF struck THEN ss ELSE score_system,
          player |-> IF struck THEN result.self ELSE player,
          gsm |-> IF struck /\ game_over
                  THEN GameStateManager_on_game_over(gsm, ss) ELSE gsm,
          calls |-> IF struck
                    THEN {<<"on_player_hit", FALSE>>, <<"lose_life", game_over>>}
                         \cup (IF game_over THEN {<<"on_game_over", FALSE>>}
                               ELSE {})
                    ELSE {} ]

\* the pass over the asteroids
pass_asteroids(colliding) ==
    LET result == PlayerHit(colliding)
    IN  /\ loop.pc = "pass_asteroids"
        /\ colliding => asteroids # << >>
        /\ score_system' = result.score_system
        /\ player' = result.player
        /\ gsm' = result.gsm
        /\ loop' = [loop EXCEPT !.pc = "pass_ufos"]
        /\ last' = CallWith("pass_asteroids", <<colliding>>, FALSE,
                            result.calls)
        /\ UNCHANGED <<shots, asteroids, ufos, enemy_projectiles, powerups,
                       level_manager>>

\* the pass over the UFOs
pass_ufos(colliding) ==
    LET result == PlayerHit(colliding)
    IN  /\ loop.pc = "pass_ufos"
        /\ colliding => ufos > 0
        /\ score_system' = result.score_system
        /\ player' = result.player
        /\ gsm' = result.gsm
        /\ loop' = [loop EXCEPT !.pc = "pass_projectiles"]
        /\ last' = CallWith("pass_ufos", <<colliding>>, FALSE, result.calls)
        /\ UNCHANGED <<shots, asteroids, ufos, enemy_projectiles, powerups,
                       level_manager>>

\* the pass over the enemy projectiles: the one that hits is killed
pass_projectiles(colliding) ==
    LET result == PlayerHit(colliding)
    IN  /\ loop.pc = "pass_projectiles"
        /\ colliding => enemy_projectiles > 0
        /\ score_system' = result.score_system
        /\ player' = result.player
        /\ gsm' = result.gsm
        /\ enemy_projectiles' = IF result.struck THEN enemy_projectiles - 1
                                ELSE enemy_projectiles
        /\ loop' = [loop EXCEPT !.pc = "tick"]
        /\ last' = CallWith("pass_projectiles", <<colliding>>, FALSE,
                            result.calls)
        /\ UNCHANGED <<shots, asteroids, ufos, powerups, level_manager>>

\* dt = clock.tick(60) / 1000, and the next frame begins; frame_lives
\* records the lives the frame begins with
tick(dt) ==
    /\ loop.pc = "tick"
    /\ loop' = [loop EXCEPT !.pc = "gsm_update", !.dt = dt,
                            !.frame_lives = player.lives]
    /\ last' = Call("tick", <<dt>>, FALSE)
    /\ UNCHANGED <<shots, score_system, asteroids, ufos, enemy_projectiles, powerups,
                   level_manager, player, gsm>>

Next ==
    \/ gsm_update
    \/ objects_update
    \/ \E colliding \in SUBSET powerups : pass_powerups(colliding)
    \/ \E colliding \in BOOLEAN : pass_asteroids(colliding)
    \/ \E colliding \in BOOLEAN : pass_ufos(colliding)
    \/ \E colliding \in BOOLEAN : pass_projectiles(colliding)
    \/ \E dt \in Dts : tick(dt)

Spec == Init /\ [][Next]_vars

\* C10: in the game loop lives decreases only in a collision pass, by one,
\* and only when the player is neither respawning nor within the spawn
\* invulnerability time at the moment of the hit; over the three passes of
\* a frame at most one life is lost.
C10_NoLifeLostWhileProtected ==
    [][ /\ player'.lives < player.lives =>
               /\ ~player.is_respawning
               /\ player.spawn_invulnerability_timer <= 0
               /\ player'.lives = player.lives - 1
               /\ last'.op \in {"pass_asteroids", "pass_ufos",
                                 "pass_projectiles"}
        /\ loop'.frame_lives - player'.lives \in {0, 1}
      ]_vars

\* a frame in which the asteroid pass took the second life and the UFO
\* and projectile passes, both with a collision, took none: the player is
\* respawning
C10_Witness ==
    /\ last.op = "pass_projectiles"
    /\ last.args = <<TRUE>>
    /\ last.calls = {}
    /\ loop.frame_lives = 2
    /\ player.lives = 1
    /\ player.is_respawning

-----------------------------------------------------------------------------
(* SpecLastLife: the frames of Spec for a player on the last life, with    *)
(* the loop kept running: main()'s while loop runs a frame after a frame   *)
(* for as long as running is true, which is weak fairness of its steps.    *)

\* the frame time of these frames
LastLifeDts == {2 * DtStep}

\* a game in progress in which two lives have been lost
InitLastLife ==
    /\ score_system = ScoreSystem_init(DefaultHighScores)
    /\ asteroids \in FieldAsteroids
    /\ ufos \in FieldUfos
    /\ enemy_projectiles \in FieldProjectiles
    /\ shots = NoShots
    /\ powerups \in FieldPowerups
    /\ level_manager = LevelManager_init
    /\ player = [Player_init EXCEPT !.lives = 1]
    /\ gsm = [GameStateManager_init EXCEPT !.current_state = "PLAYING"]
    /\ loop = [pc |-> "gsm_update", dt |-> 0, running |-> TRUE,
               game_initialized |-> TRUE, frame_lives |-> 1]
    /\ last = Call("init", <<>>, FALSE)

NextLastLife ==
    \/ gsm_update
    \/ objects_update
    \/ \E colliding \in SUBSET powerups : pass_powerups(colliding)
    \/ \E colliding \in BOOLEAN : pass_asteroids(colliding)
    \/ \E colliding \in BOOLEAN : pass_ufos(colliding)
    \/ \E colliding \in BOOLEAN : pass_projectiles(colliding)
    \/ \E dt \in LastLifeDts : tick(dt)

SpecLastLife ==
    InitLastLife /\ [][NextLastLife]_vars /\ WF_vars(NextLastLife)

\* C11: once the lives are 0 while the state is PLAYING, the state
\* eventually becomes GAME_OVER as the frames keep ticking, whatever
\* collides with the player in the frames after the fatal hit.
C11_GameOverEventually ==
    (player.lives = 0 /\ gsm.current_state = "PLAYING")
        ~> (gsm.current_state = "GAME_OVER")

\* a pass after the fatal hit in which the player, with no life left, is
\* struck again while the fade to GAME_OVER is under way: on_game_over is
\* called once more and the fade starts again from 0
C11_FadeRestarted ==
    /\ last.op = "pass_asteroids"
    /\ <<"on_game_over", FALSE>> \in last.calls
    /\ loop.frame_lives = 0
    /\ player.lives = 0
    /\ gsm.current_state = "PLAYING"
    /\ gsm.transitioning_to = "GAME_OVER"
    /\ gsm.transition_alpha = 0

-----------------------------------------------------------------------------
(* SpecAmmo: the Player with its ammunition under any sequence of update   *)
(* (the timed recharge, and shoot() when the space key is down), Ammo     *)
(* power-ups picked up, lives lost and respawned, and shots that hit.      *)

\* the frame times of these updates
AmmoDts == {0, DtStep}

InitAmmo ==
    /\ score_system = ScoreSystem_init(DefaultHighScores)
    /\ asteroids = <<>>
    /\ ufos = 0
    /\ enemy_projectiles = 0
    /\ shots = NoShots
    /\ powerups = {}
    /\ level_manager = LevelManager_init
    /\ player = Player_init_with_ammo
    /\ gsm = GameStateManager_init
    /\ loop = [pc |-> "events", dt |-> 0, running |-> TRUE,
               game_initialized |-> FALSE, frame_lives |-> 0]
    /\ last = Call("init", <<>>, FALSE)

\* player.update(dt) with the state of the space key; the Shoot that
\* shoot() builds joins the shots group, at the player's position
update_keys(dt, space) ==
    LET result == Player_update_keys(player, dt, space)
    IN  /\ result.shot => shots.on_screen + shots.off_screen < MaxShots
        /\ player' = result.self
        /\ shots' = IF result.shot THEN [shots EXCEPT !.on_screen = @ + 1]
                    ELSE shots
        /\ last' = Call("Player.update", <<dt, space, player>>, result.shot)
        /\ UNCHANGED <<score_system, asteroids, ufos, enemy_projectiles,
                       powerups, level_manager, gsm, loop>>

\* shot.kill() of a shot on the screen that hit something
shot_kill ==
    /\ shots.on_screen > 0
    /\ shots' = [shots EXCEPT !.on_screen = @ - 1]
    /\ last' = Call("shot.kill", <<>>, FALSE)
    /\ UNCHANGED <<score_system, asteroids, ufos, enemy_projectiles, powerups,
                   level_manager, player, gsm, loop>>

NextAmmo ==
    \/ \E dt \in AmmoDts, space \in BOOLEAN : update_keys(dt, space)
    \/ apply_effect(POWERUP_AMMO)
    \/ lose_life
    \/ shot_kill

SpecAmmo == InitAmmo /\ [][NextAmmo]_vars

\* C12: in every reachable state 0 <= current_ammo <= AMMO_MAX_SHOTS (80),
\* after any sequence of shots, timed recharges, Ammo power-ups and
\* respawns.
C12_AmmoInRange ==
    /\ player.current_ammo >= 0
    /\ player.current_ammo <= 80

\* an update with the space key down, the cooldown over and the player not
\* respawning, but no ammo left and none recharged: no shot is fired and
\* the ammo stays 0
C12_Witness ==
    /\ last.op = "Player.update"
    /\ last.args[2]
    /\ last.args[3].current_ammo = 0
    /\ last.args[3].timer - 10 * last.args[1] <= 0
    /\ ~player.is_respawning
    /\ player.current_ammo = 0

\* an Ammo power-up picked up with more than 75 shots in hand: the ammo
\* becomes 80
C12_Capped ==
    /\ last.op = "apply_effect"
    /\ last.args = <<POWERUP_AMMO>>
    /\ player.current_ammo = 80
    /\ player.lives = 2

-----------------------------------------------------------------------------
(* SpecGame: main()'s loop with its events and menus.  A frame handles an  *)
(* event, updates the state manager and, in the PLAYING state, runs the    *)
(* frame of Spec.  The loop starts at the menu, or is taken up in a game   *)
(* in progress; spawning and the shots are in SpecLevel and SpecAsteroid.  *)

\* the frame time of these frames
GameDts == {2 * DtStep}

\* main() before its loop
InitMenu ==
    /\ score_system = ScoreSystem_init(DefaultHighScores)
    /\ InitObjects

\* the score of the game in progress: below and above the lowest score of
\* the table
InProgressScores == {1500, 2500}

\* a game in progress at level 6, two lives lost and an asteroid in the
\* field
InitInProgress ==
    /\ score_system \in
           { [ScoreSystem_init(DefaultHighScores) EXCEPT
                 !.score = score, !.perfect_wave = FALSE]
             : score \in InProgressScores }
    /\ asteroids = << Asteroid_init(1, ASTEROID_KINDS, ASTEROID_TYPE_REGULAR) >>
    /\ ufos = 0
    /\ enemy_projectiles = 0
    /\ shots = NoShots
    /\ powerups = {}
    /\ level_manager = LevelManager_at(6)
    /\ player = [Player_init EXCEPT !.lives = 1]
    /\ gsm = [GameStateManager_init EXCEPT !.current_state = "PLAYING"]
    /\ loop = [pc |-> "events", dt |-> 0, running |-> TRUE,
               game_initialized |-> TRUE, frame_lives |-> 1]
    /\ last = Call("init", <<>>, FALSE)

InitGame == InitMenu \/ InitInProgress

\* for event in pygame.event.get(), for a frame with one KEYDOWN event or
\* with none ("NONE"): handle_event and main()'s treatment of its result
events(key) ==
    LET result == IF key = "NONE" THEN Handled(gsm, score_system, "False")
                  ELSE GameStateManager_handle_event(gsm, score_system, key)
    IN  /\ loop.pc = "events"
        /\ gsm' = result.self
        /\ score_system' = result.score_system
        /\ loop' = [loop EXCEPT
                       !.pc = "gsm_update",
                       !.running = result.ret # "quit",
                       !.game_initialized =
                           IF result.ret = "restart" THEN TRUE
                           ELSE IF result.ret = "back_to_menu" THEN FALSE
                           ELSE @]
        /\ last' = Call("handle_event", <<key>>, result.ret)
        /\ IF result.ret = "restart"
           THEN init_game_objects
           ELSE UNCHANGED <<shots, asteroids, ufos, enemy_projectiles, powerups,
                            level_manager, player>>

\* an event of type pygame.QUIT
quit_event ==
    /\ loop.pc = "events"
    /\ loop' = [loop EXCEPT !.pc = "gsm_update", !.running = FALSE]
    /\ last' = Call("pygame.QUIT", <<>>, FALSE)
    /\ UNCHANGED <<shots, score_system, asteroids, ufos, enemy_projectiles, powerups,
                   level_manager, player, gsm>>

\* dt = clock.tick(60) / 1000 and the test of the while loop
next_frame(dt) ==
    /\ loop.pc = "tick"
    /\ loop' = [loop EXCEPT !.pc = IF loop.running THEN "events" ELSE "exit",
                            !.dt = dt,
                            !.frame_lives = player.lives]
    /\ last' = Call("tick", <<dt>>, FALSE)
    /\ UNCHANGED <<shots, score_system, asteroids, ufos, enemy_projectiles, powerups,
                   level_manager, player, gsm>>

NextGame ==
    \/ \E key \in KeysDown \cup {"NONE"} : events(key)
    \/ quit_event
    \/ gsm_update
    \/ objects_update
    \/ \E colliding \in SUBSET powerups : pass_powerups(colliding)
    \/ \E colliding \in BOOLEAN : pass_asteroids(colliding)
    \/ \E colliding \in BOOLEAN : pass_ufos(colliding)
    \/ \E colliding \in BOOLEAN : pass_projectiles(colliding)
    \/ \E dt \in GameDts : next_frame(dt)

SpecGame == InitGame /\ [][NextGame]_vars

\* C13: whenever a new game begins, play starts from fresh state: when the
\* state becomes PLAYING from MENU (Start Game) or from GAME_OVER (Play
\* Again), and when a restart is requested (Restart of the pause menu, Play
\* Again), the score and the combo are 0, the player has 3 lives and the
\* level manager is at level 1 on its first wave.
C13_NewGameStartsFresh ==
    [][ (\/ /\ gsm.current_state \in {"MENU", "GAME_OVER"}
            /\ gsm'.current_state = "PLAYING"
         \/ /\ last'.op = "handle_event"
            /\ last'.ret = "restart")
        => /\ score_system'.score = 0
           /\ score_system'.combo_count = 0
           /\ player'.lives = 3
           /\ level_manager'.current_level = 1
           /\ level_manager'.current_wave_index = 0
      ]_vars

\* play has started from the main menu with the objects of the game that
\* ended before: the player has no life and the level manager is at level 6
C13_StalePlay ==
    /\ last.op = "GameStateManager.update"
    /\ gsm.current_state = "PLAYING"
    /\ gsm.transition_alpha = 255
    /\ loop.pc = "objects"
    /\ player.lives = 0
    /\ level_manager.current_level = 6
    /\ score_system.score = 0

-----------------------------------------------------------------------------
(* SpecShots: the two passes of main()'s loop over the player's shots,     *)
(* main.py:345-386.  A step is the body of the outer loop for one enemy:   *)
(* the inner loop over the shots, of which some collide with it.  The      *)
(* field and the shots are the ones the game has reached.                  *)

\* the group in which slot a holds the object self: the asteroids as the
\* inner loop sees them, where `asteroid` stays bound to the object of the
\* outer loop after split() has killed it
Reinstated(group, a, self) ==
    [s \in DOMAIN group \cup {a} |-> IF s = a THEN self ELSE group[s]]

\* the body of the inner loop for a shot that collides with the asteroid
\* `st.self` of slot a (the shot itself is killed by the caller): hit(),
\* and when it returns True on_asteroid_destroyed(), add_score() and the
\* power-up of drop, which is a set with the type of one or the empty set
ShotHitsAsteroid(st, a, new_type, level_multiplier, drop) ==
    LET result == Asteroid_hit(Reinstated(st.asteroids, a, st.self), a,
                               new_type)
        struck == IF st.self.asteroid_type = ASTEROID_TYPE_ARMORED
                  THEN ArmorHit(st.self) ELSE st.self
        destroyed == result.ret
    IN  [ asteroids |-> result.asteroids,
          self |-> struck,
          score_system |->
              IF destroyed
              THEN ScoreSystem_add_score(
                       ScoreSystem_on_asteroid_destroyed(st.score_system),
                       st.self.score_value, level_multiplier)
              ELSE st.score_system,
          enemy_projectiles |-> st.enemy_projectiles + result.projectiles,
          powerups |-> IF destroyed THEN st.powerups \cup drop
                       ELSE st.powerups,
          destroyed |-> st.destroyed + (IF destroyed THEN 1 ELSE 0) ]

\* the inner loop for the asteroid of slot a with n shots colliding
RECURSIVE ShotsHitAsteroid(_, _, _, _, _, _)
ShotsHitAsteroid(st, a, n, new_type, level_multiplier, drop) ==
    IF n = 0 THEN st
    ELSE ShotsHitAsteroid(
             ShotHitsAsteroid(st, a, new_type, level_multiplier, drop),
             a, n - 1, new_type, level_multiplier, drop)

\* the inner loop for one UFO with n shots colliding: each kills the UFO,
\* which leaves the group the first time, and scores
RECURSIVE ShotsHitUfo(_, _, _)
ShotsHitUfo(st, n, level_multiplier) ==
    IF n = 0 THEN st
    ELSE ShotsHitUfo(
             [ ufos |-> IF st.alive THEN st.ufos - 1 ELSE st.ufos,
               alive |-> FALSE,
               score_system |->
                   ScoreSystem_add_score(
                       ScoreSystem_on_ufo_destroyed(st.score_system),
                       UFO_SCORE, level_multiplier),
               destroyed |-> st.destroyed + 1 ],
             n - 1, level_multiplier)

\* the shots of the field
FieldShots == { [on_screen |-> n, off_screen |-> 0] : n \in 1..MaxShots }

\* what random.random() < POWERUP_SPAWN_CHANCE leaves: nothing or a power-up
Drops == { {}, {POWERUP_SCORE} }

InitShots ==
    /\ score_system = ScoreSystem_init(DefaultHighScores)
    /\ \E position \in Positions, radius \in Radii, t \in AsteroidTypes :
           asteroids = << Asteroid_init(position, radius, t) >>
    /\ ufos \in FieldUfos
    /\ enemy_projectiles = 0
    /\ shots \in FieldShots
    /\ powerups = {}
    /\ level_manager = LevelManager_init
    /\ player = Player_init
    /\ gsm = [GameStateManager_init EXCEPT !.current_state = "PLAYING"]
    /\ loop = [pc |-> "shots", dt |-> 0, running |-> TRUE,
               game_initialized |-> TRUE,
               frame_lives |-> PLAYER_INITIAL_LIVES]
    /\ last = Call("init", <<>>, FALSE)

\* for shot in shots, for the asteroid of slot a: n shots on the screen
\* collide with it
shots_at_asteroid(a, n, new_type, drop) ==
    LET result ==
            ShotsHitAsteroid(
                [ asteroids |-> asteroids, self |-> asteroids[a],
                  score_system |-> score_system,
                  enemy_projectiles |-> enemy_projectiles,
                  powerups |-> powerups, destroyed |-> 0 ],
                a, n, new_type,
                LevelManager_get_score_multiplier(level_manager), drop)
    IN  /\ n <= shots.on_screen
        /\ n * SlotsNeeded(asteroids, a) <= Cardinality(FreeSlots(asteroids))
        /\ asteroids[a].asteroid_type = ASTEROID_TYPE_EXPLOSIVE
               => enemy_projectiles + n * EXPLOSIVE_PROJECTILE_COUNT
                      <= MaxProjectiles
        /\ shots' = [shots EXCEPT !.on_screen = @ - n]
        /\ asteroids' = result.asteroids
        /\ score_system' = result.score_system
        /\ enemy_projectiles' = result.enemy_projectiles
        /\ powerups' = result.powerups
        /\ last' = Call("shots_at_asteroid", <<a, n, asteroids[a]>>,
                        result.destroyed)
        /\ UNCHANGED <<ufos, level_manager, player, gsm, loop>>

\* for shot in shots, for one UFO: n shots on the screen collide with it
shots_at_ufo(n) ==
    LET result ==
            ShotsHitUfo(
                [ ufos |-> ufos, alive |-> TRUE,
                  score_system |-> score_system, destroyed |-> 0 ],
                n, LevelManager_get_score_multiplier(level_manager))
    IN  /\ ufos > 0
        /\ n <= shots.on_screen
        /\ shots' = [shots EXCEPT !.on_screen = @ - n]
        /\ ufos' = result.ufos
        /\ score_system' = result.score_system
        /\ last' = Call("shots_at_ufo", <<n>>, result.destroyed)
        /\ UNCHANGED <<asteroids, enemy_projectiles, powerups, level_manager,
                       player, gsm, loop>>

NextShots ==
    \/ \E a \in DOMAIN asteroids, n \in 0..MaxShots,
          new_type \in AsteroidTypes, drop \in Drops :
           shots_at_asteroid(a, n, new_type, drop)
    \/ \E n \in 0..MaxShots : shots_at_ufo(n)

SpecShots == InitShots /\ [][NextShots]_vars

\* C14: destruction happens once: in the pass over the shots an asteroid
\* is counted destroyed at most once, awards its score at most once (one
\* add_score, which lengthens the combo by one) and leaves at most two
\* children (the group grows by at most one); a UFO likewise is counted
\* and awards its score at most once.
C14_DestroyedOnce ==
    [][ /\ last'.op = "shots_at_asteroid" =>
               /\ score_system'.asteroids_destroyed
                      <= score_system.asteroids_destroyed + 1
               /\ score_system'.combo_count <= score_system.combo_count + 1
               /\ Cardinality(DOMAIN asteroids')
                      <= Cardinality(DOMAIN asteroids) + 1
        /\ last'.op = "shots_at_ufo" =>
               /\ score_system'.ufos_destroyed
                      <= score_system.ufos_destroyed + 1
               /\ score_system'.combo_count <= score_system.combo_count + 1
      ]_vars

\* two shots hit one asteroid of radius 36 in the same pass: hit() ran
\* split() twice, the asteroid is counted destroyed twice and has left
\* four children
C14_DestroyedTwice ==
    /\ last.op = "shots_at_asteroid"
    /\ last.args[2] = 2
    /\ last.args[3].radius = 36
    /\ last.ret = 2
    /\ score_system.asteroids_destroyed = 2
    /\ Cardinality(DOMAIN asteroids) = 4

-----------------------------------------------------------------------------
(* The end of the game: level 12 played to its last wave under            *)
(* SpecLastLevel.                                                          *)

\* C15: once the level manager has marked the game complete, every later
\* update call leaves it as it is (the level does not advance), requests no
\* spawn and does not fail
C15_GameCompleteIsStable ==
    [][(last'.op = "LevelManager.update" /\ level_manager.game_complete)
        => /\ level_manager' = level_manager
           /\ asteroids' = asteroids
           /\ ufos' = ufos
           /\ <<"IndexError", TRUE>> \notin last'.calls
           /\ loop'.running]_vars

\* the first update after the game was marked complete has raised
C15_UpdateRaised ==
    /\ last.op = "LevelManager.update"
    /\ <<"IndexError", TRUE>> \in last.calls
    /\ level_manager.game_complete
    /\ level_manager.current_level = 13
    /\ ~level_manager.transition_active
    /\ level_manager.current_wave_index = Len(level_manager.waves)
    /\ ~loop.running

-----------------------------------------------------------------------------
(* Waves and levels completed, as the score system sees them under        *)
(* SpecLevel.                                                              *)

\* C16: when LevelManager.update completes a wave, the score system records
\* it as on_wave_completed does (waves_completed one higher, PERFECT_WAVE if
\* no damage was taken, BOSS_SLAYER for a boss wave), and when that wave ends
\* the level LEVEL_COMPLETE is unlocked as on_level_completed does
C16_CompletionRecorded ==
    [][(last'.op = "LevelManager.update"
        /\ <<"is_complete", TRUE>> \in last'.calls)
        => LET wave == level_manager.waves[level_manager.current_wave_index + 1]
               recorded == ScoreSystem_on_wave_completed(score_system,
                                                         wave.boss)
           IN  /\ score_system'.waves_completed
                      = score_system.waves_completed + 1
               /\ score_system' =
                      IF level_manager'.level_complete
                      THEN ScoreSystem_on_level_completed(recorded)
                      ELSE recorded]_vars

\* a level has been completed and the score system has recorded nothing
C16_NothingRecorded ==
    /\ last.op = "LevelManager.update"
    /\ <<"is_complete", TRUE>> \in last.calls
    /\ level_manager.level_complete
    /\ level_manager.transition_active
    /\ level_manager.current_wave_index = Len(level_manager.waves)
    /\ score_system.waves_completed = 0
    /\ score_system.perfect_wave
    /\ score_system.achievements \cap
           {"PERFECT_WAVE", "BOSS_SLAYER", "LEVEL_COMPLETE"} = {}

-----------------------------------------------------------------------------
(* The paused game, under SpecGame.                                        *)

\* C17: while the state is PAUSED, the steps of a frame other than the
\* handling of input change no simulation state: the entities, the level
\* manager, and the score system's combo timer, combo count and survival
\* time stay as they are
C17_PausedFreezesSimulation ==
    [][(gsm.current_state = "PAUSED"
        /\ last'.op \notin {"handle_event", "pygame.QUIT"})
        => /\ UNCHANGED <<asteroids, ufos, enemy_projectiles, shots, powerups,
                          player, level_manager>>
           /\ score_system'.combo_timer = score_system.combo_timer
           /\ score_system'.combo_count = score_system.combo_count
           /\ score_system'.time_survived = score_system.time_survived]_vars

\* a frame of the paused game has run ScoreSystem.update: the survival time
\* went on counting
C17_ClockRanWhilePaused ==
    /\ last.op = "GameStateManager.update"
    /\ gsm.current_state = "PAUSED"
    /\ gsm.transitioning_to = "None"
    /\ gsm.transition_alpha = 250
    /\ loop.game_initialized
    /\ score_system.time_survived > 0

-----------------------------------------------------------------------------
(* SpecFrame: the whole frame of main(), from the menu on: the events,     *)
(* GameStateManager.update, and in the PLAYING state LevelManager.update,  *)
(* updatable.update and the collision passes, in the order of the code.    *)

\* level_manager.update(dt, len(asteroids), spawn_asteroid, spawn_ufo) in
\* the frame
frame_level_update(roll) ==
    LET asteroid_count == Cardinality(DOMAIN asteroids)
        result == LevelManager_update(level_manager, loop.dt, asteroid_count,
                                      roll)
        raised == <<"IndexError", TRUE>> \in result.calls
    IN  /\ loop.pc = "level_manager"
        /\ result.size > 0 => asteroid_count < MaxLive
        /\ result.ufo => ufos < MaxUfos
        /\ level_manager' = result.self
        /\ asteroids' =
               IF result.size > 0
               THEN spawn_asteroid(asteroids, 1, result.size,
                                   ASTEROID_TYPE_REGULAR)
               ELSE asteroids
        /\ ufos' = IF result.ufo THEN ufos + 1 ELSE ufos
        /\ loop' = [loop EXCEPT !.pc = IF raised THEN "exit" ELSE "objects",
                                !.running = ~raised]
        /\ last' = CallWith("LevelManager.update",
                            <<loop.dt, asteroid_count>>, FALSE, result.calls)
        /\ UNCHANGED <<shots, score_system, enemy_projectiles, powerups,
                       player, gsm>>

\* the keys of the frames of SpecFrame
FrameKeys == {"NONE", "RETURN", "P"}

NextFrame ==
    \/ \E key \in FrameKeys : events(key)
    \/ gsm_update_then("level_manager")
    \/ \E roll \in Rolls : frame_level_update(roll)
    \/ objects_update
    \/ \E colliding \in SUBSET powerups : pass_powerups(colliding)
    \/ \E colliding \in BOOLEAN : pass_asteroids(colliding)
    \/ \E colliding \in BOOLEAN : pass_ufos(colliding)
    \/ \E colliding \in BOOLEAN : pass_projectiles(colliding)
    \/ \E dt \in GameDts : next_frame(dt)

SpecFrame == InitMenu /\ [][NextFrame]_vars

\* C18: in a frame in which the simulation advances the components are
\* updated once each in the order input handling, player update,
\* level manager, collision resolution, score-system timers: each update
\* follows directly on the one before it in that order
C18_UpdateOrder ==
    [][/\ last'.op = "updatable.update" => last.op = "handle_event"
       /\ last'.op = "LevelManager.update" => last.op = "updatable.update"
       /\ last'.op = "pass_powerups" => last.op = "LevelManager.update"
       /\ (last'.op = "GameStateManager.update"
           /\ gsm.current_state = "PLAYING" /\ loop.game_initialized)
              => last.op = "pass_projectiles"]_vars

\* a frame of the game in play has gone through its steps in the order of
\* the code: the score-system timers ran before the level manager, the
\* level manager before the player, the collisions last
C18_CodeOrder ==
    /\ last.op = "pass_powerups"
    /\ gsm.current_state = "PLAYING"
    /\ gsm.transitioning_to = "None"
    /\ score_system.time_survived > 0
    /\ level_manager.waves[1].asteroids_spawned > 0
    /\ player.respawn_timer = 0
    /\ loop.pc = "pass_asteroids"

-----------------------------------------------------------------------------
(* The Score power-up, under SpecPlayer.                                   *)

\* C19: picking up a Score power-up adds POWERUP_SCORE_AMOUNT (500) to the
\* score held by the score system
C19_ScorePowerupAddsToScore ==
    [][(last'.op = "apply_effect" /\ last'.args[1] = POWERUP_SCORE)
        => score_system'.score = score_system.score + 500]_vars

\* a Score power-up has been picked up: the bonus is in the player's own
\* score attribute and the score system's score has not moved
C19_BonusOnPlayer ==
    /\ last.op = "apply_effect"
    /\ last.args[1] = POWERUP_SCORE
    /\ player.score = 500
    /\ score_system.score = 0

-----------------------------------------------------------------------------
(* SpecFlight: the player's shots from the key press on: fired by          *)
(* Player.update, moved by Shoot.update, killed by what they hit.          *)

\* Shoot.update for the shots of the group, `leaving` of them crossing the
\* edge of the screen in this frame: the position moves on, nothing else
Shoot_update(group, leaving) ==
    [group EXCEPT !.on_screen = @ - leaving, !.off_screen = @ + leaving]

\* updatable.update(dt), for the shots
shots_update(leaving) ==
    /\ shots.on_screen + shots.off_screen > 0
    /\ shots' = Shoot_update(shots, leaving)
    /\ last' = Call("Shoot.update", <<leaving>>, FALSE)
    /\ UNCHANGED <<score_system, asteroids, ufos, enemy_projectiles, powerups,
                   level_manager, player, gsm, loop>>

NextFlight ==
    \/ \E dt \in AmmoDts, space \in BOOLEAN : update_keys(dt, space)
    \/ \E leaving \in 0..shots.on_screen : shots_update(leaving)
    \/ shot_kill

SpecFlight == InitAmmo /\ [][NextFlight]_vars

\* C20: player shots are screen-bounded: a shot that leaves the screen is
\* removed from the world, so no live shot is ever off the screen and no
\* shot that misses everything stays alive
C20_ShotsScreenBounded == shots.off_screen = 0

\* two shots have flown off the screen and are still in the group
C20_ShotsAliveOffScreen ==
    /\ last.op = "Shoot.update"
    /\ shots.on_screen = 0
    /\ shots.off_screen = 2
    /\ player.current_ammo < 25

-----------------------------------------------------------------------------
(* SpecManager: the LevelManager on its own, from a level's beginning to   *)
(* the end of the game: update() called frame after frame with whatever    *)
(* size the asteroids group has.                                           *)

\* the sizes of the asteroids group handed to update(): empty or not
AsteroidCounts == {0, 1}

\* level_manager.update(dt, asteroid_count, spawn_asteroid_func,
\* spawn_ufo_func); an exception ends the program
update_call(dt, asteroid_count, roll) ==
    LET result == LevelManager_update(level_manager, dt, asteroid_count, roll)
    IN  /\ loop.running
        /\ level_manager' = result.self
        /\ loop' = [loop EXCEPT
                        !.running = <<"IndexError", TRUE>> \notin result.calls]
        /\ last' = CallWith("LevelManager.update", <<dt, asteroid_count>>,
                            FALSE, result.calls)
        /\ UNCHANGED <<shots, score_system, asteroids, ufos,
                       enemy_projectiles, powerups, player, gsm>>

NextManager ==
    \E dt \in LevelDts, asteroid_count \in AsteroidCounts, roll \in Rolls :
        update_call(dt, asteroid_count, roll)

SpecManager == InitLevel /\ [][NextManager]_vars

\* C21: for every level 1..12 the waves generated are three non-boss waves
\* in order (the compositions of waves 1, 2 and 3), followed by exactly one
\* boss wave, the last, if and only if the level is a multiple of 3; the
\* boss wave is the UFO fleet when the level is a multiple of 6 and the
\* asteroid storm otherwise
C21_WavesOfLevel ==
    LET level == level_manager.current_level
        waves == level_manager.waves
        asteroid_count == waves[1].asteroids_count
        ufo_count == waves[2].ufo_count
    IN  level \in 1..12 =>
        /\ Len(waves) = IF level % 3 = 0 THEN 4 ELSE 3
        /\ \A w \in 1..3 : ~waves[w].boss
        /\ waves[1].asteroid_size_distribution = <<70, 20, 10>>
        /\ waves[2].asteroid_size_distribution = <<50, 30, 20>>
        /\ waves[3].asteroid_size_distribution = <<30, 40, 30>>
        /\ waves[1].ufo_count = 0
        /\ waves[2].asteroids_count = asteroid_count + 2
        /\ waves[3].asteroids_count = asteroid_count + 4
        /\ waves[3].ufo_count = ufo_count + 1
        /\ level % 3 = 0 =>
              /\ waves[4].boss
              /\ IF level % 6 = 0
                 THEN /\ waves[4].asteroid_size_distribution = <<20, 30, 50>>
                      /\ waves[4].ufo_count = ufo_count + 3
                      /\ waves[4].asteroids_count = asteroid_count \div 2
                 ELSE /\ waves[4].asteroid_size_distribution = <<60, 30, 10>>
                      /\ waves[4].ufo_count = 1
                      /\ waves[4].asteroids_count = asteroid_count * 2

\* the transition after level 11 has generated level 12, whose last wave is
\* the UFO fleet
C21_Witness ==
    /\ last.op = "LevelManager.update"
    /\ level_manager.current_level = 12
    /\ level_manager.current_wave_index = 0
    /\ ~level_manager.transition_active
    /\ Len(level_manager.waves) = 4
    /\ level_manager.waves[4].boss
    /\ level_manager.waves[4].ufo_count > 3
    /\ level_manager.waves[1].asteroids_spawned = 0

-----------------------------------------------------------------------------
(* The score value of an asteroid, under SpecAsteroid.                     *)

\* the radii looked at for the tiers: up to twice the largest kind
ScoreRadii == 1..(2 * ASTEROID_KINDS * ASTEROID_MIN_RADIUS)

\* C22: the score_value of every asteroid is its base tier (one of 100, 50,
\* 25, by radius) times its type multiplier (x1, x1.5, x2), truncated, and
\* each of the three tiers is the base for some radius
C22_ScoreValueTiers ==
    /\ \A a \in DOMAIN asteroids :
           LET base == Asteroid_get_score_value(asteroids[a].radius,
                                                ASTEROID_TYPE_REGULAR)
               multiplier ==
                   IF asteroids[a].asteroid_type = ASTEROID_TYPE_EXPLOSIVE
                   THEN 150
                   ELSE IF asteroids[a].asteroid_type = ASTEROID_TYPE_ARMORED
                        THEN 200 ELSE 100
           IN  /\ base \in {100, 50, 25}
               /\ asteroids[a].score_value = (base * multiplier) \div 100
    /\ \A tier \in {100, 50, 25} :
           \E radius \in ScoreRadii :
               Asteroid_get_score_value(radius, ASTEROID_TYPE_REGULAR) = tier

\* an asteroid of radius 2 * ASTEROID_MIN_RADIUS, the threshold of the
\* medium tier, is scored as a large one
C22_MediumScoredLarge ==
    \E a \in DOMAIN asteroids :
        /\ asteroids[a].radius = 36
        /\ asteroids[a].asteroid_type = ASTEROID_TYPE_REGULAR
        /\ asteroids[a].score_value = 100

-----------------------------------------------------------------------------
(* The radius of the asteroids alive, under SpecAsteroid.                  *)

\* C23: every asteroid in the group has radius > 0, after any sequence of
\* constructions with a positive radius and of splits
C23_RadiusPositive ==
    \A a \in DOMAIN asteroids : asteroids[a].radius > 0

\* an asteroid of radius ASTEROID_MIN_RADIUS has been split: its two
\* children are in the group with radius 0
C23_ChildrenOfRadiusZero ==
    /\ last.op = "hit"
    /\ last.ret
    /\ last.args[2].radius = 18
    /\ Cardinality({a \in DOMAIN asteroids : asteroids[a].radius = 0}) = 2

-----------------------------------------------------------------------------
(* The index of the current wave, under SpecLevel.                         *)

\* C24: in every reachable state of the level manager, transitions
\* included, current_wave_index is a valid index into waves (so that
\* get_score_multiplier, which reads waves[current_wave_index], is defined
\* when an asteroid or a UFO is destroyed)
C24_WaveIndexValid ==
    /\ level_manager.current_wave_index >= 0
    /\ level_manager.current_wave_index < Len(level_manager.waves)

\* a UFO of the last wave of level 1 is shot during the level transition:
\* the index get_score_multiplier would read is the number of waves
C24_UfoShotPastLastWave ==
    /\ last.op = "ufo.kill"
    /\ level_manager.current_level = 1
    /\ level_manager.level_complete
    /\ level_manager.transition_active
    /\ level_manager.current_wave_index = Len(level_manager.waves)

-----------------------------------------------------------------------------
(* The Invincibility power-up in the frames of Spec.                       *)

\* C25: while POWERUP_INVINCIBILITY is in active_powerups the player loses
\* no life: at every collision pass, those of the pickup frame included,
\* is_vulnerable() is false
C25_InvincibleLosesNoLife ==
    [][(POWERUP_INVINCIBILITY \in DOMAIN player.active_powerups)
        => /\ player'.lives = player.lives
           /\ (last'.op \in {"pass_asteroids", "pass_ufos",
                              "pass_projectiles"}
                  => ~Player_is_vulnerable(player))
      ]_vars

\* the player picked up Invincibility and lost a life to an asteroid in the
\* same frame
C25_HitInPickupFrame ==
    /\ last.op = "pass_asteroids"
    /\ last.args = <<TRUE>>
    /\ POWERUP_INVINCIBILITY \in DOMAIN player.active_powerups
    /\ player.active_powerups[POWERUP_INVINCIBILITY] = 40
    /\ ~player.is_invincible
    /\ powerups = {}
    /\ loop.frame_lives = 3
    /\ player.lives = 2

-----------------------------------------------------------------------------
(* Quit Game, under SpecGame.                                              *)

\* C26: confirming the Quit Game option (RETURN with the option selected and
\* no transition pending) in the main menu, the pause menu or the game-over
\* menu sets running to false, and once running is false no further frame
\* begins
C26_QuitStopsLoop ==
    [][/\ (/\ last'.op = "handle_event"
           /\ last'.args = <<"RETURN">>
           /\ gsm.transitioning_to = "None"
           /\ \/ /\ gsm.current_state = "MENU"
                 /\ gsm.selected_option + 1 \in DOMAIN menu_options
                 /\ menu_options[gsm.selected_option + 1] = "QUIT"
              \/ /\ gsm.current_state = "PAUSED"
                 /\ gsm.selected_option + 1 \in DOMAIN pause_options
                 /\ pause_options[gsm.selected_option + 1] = "QUIT"
              \/ /\ gsm.current_state = "GAME_OVER"
                 /\ ~gsm.entering_name
                 /\ gsm.selected_option + 1 \in DOMAIN game_over_options
                 /\ game_over_options[gsm.selected_option + 1] = "QUIT")
          => ~loop'.running
       /\ (~loop.running /\ loop.pc = "tick") => loop'.pc = "exit"
      ]_vars

\* Quit Game was confirmed in the main menu and the loop goes on
C26_MenuQuitIgnored ==
    /\ last.op = "handle_event"
    /\ last.args = <<"RETURN">>
    /\ last.ret = "True"
    /\ gsm.current_state = "MENU"
    /\ gsm.transitioning_to = "None"
    /\ menu_options[gsm.selected_option + 1] = "QUIT"
    /\ loop.running
    /\ loop.pc = "gsm_update"

-----------------------------------------------------------------------------
(* The quotas of a wave, under SpecManager.                                *)

\* the calls of the spawn function `name` that an update made
SpawnCalls(calls, name) == {c \in calls : c[1] = name}

\* C27: in every state each wave has asteroids_spawned <= asteroids_count
\* and ufos_spawned <= ufo_count; one update call requests at most one
\* asteroid and at most one UFO (and raises no counter by more than one),
\* and requests none while a transition is active or when it detects that
\* the wave is complete
C27_SpawnQuotas ==
    [][/\ \A w \in DOMAIN level_manager.waves :
              /\ level_manager.waves[w].asteroids_spawned
                     <= level_manager.waves[w].asteroids_count
              /\ level_manager.waves[w].ufos_spawned
                     <= level_manager.waves[w].ufo_count
       /\ \A w \in DOMAIN level_manager'.waves :
              /\ level_manager'.waves[w].asteroids_spawned
                     <= level_manager'.waves[w].asteroids_count
              /\ level_manager'.waves[w].ufos_spawned
                     <= level_manager'.waves[w].ufo_count
       /\ last'.op = "LevelManager.update" =>
              /\ Cardinality(SpawnCalls(last'.calls, "spawn_asteroid_func"))
                     <= 1
              /\ Cardinality(SpawnCalls(last'.calls, "spawn_ufo_func")) <= 1
              /\ \A w \in DOMAIN level_manager.waves
                           \cap DOMAIN level_manager'.waves :
                     /\ level_manager'.waves[w].asteroids_spawned
                            <= level_manager.waves[w].asteroids_spawned + 1
                     /\ level_manager'.waves[w].ufos_spawned
                            <= level_manager.waves[w].ufos_spawned + 1
              /\ (\/ level_manager.transition_active
                  \/ <<"is_complete", TRUE>> \in last'.calls)
                     => /\ SpawnCalls(last'.calls, "spawn_asteroid_func") = {}
                        /\ SpawnCalls(last'.calls, "spawn_ufo_func") = {}
      ]_vars

\* one update has requested the first asteroid of a wave and its last UFO
C27_Witness ==
    LET wave == level_manager.waves[level_manager.current_wave_index + 1]
    IN  /\ last.op = "LevelManager.update"
        /\ SpawnCalls(last.calls, "spawn_asteroid_func") # {}
        /\ SpawnCalls(last.calls, "spawn_ufo_func") # {}
        /\ ~level_manager.transition_active
        /\ wave.ufo_count > 0
        /\ wave.ufos_spawned = wave.ufo_count
        /\ wave.asteroids_spawned = 1

-----------------------------------------------------------------------------
(* The radius of the asteroids of a wave, under SpecLevel.                 *)

\* C28: the asteroid spawned for a wave with size kind k has radius
\* k * ASTEROID_MIN_RADIUS (18, 36 or 54), and an asteroid of the wave of
\* the medium or large kind that is destroyed splits into two children
C28_WaveAsteroidRadius ==
    [][/\ \A k \in 1..3 :
              <<"spawn_asteroid_func", k>> \in last'.calls
                  => \E a \in DOMAIN asteroids' \ DOMAIN asteroids :
                         asteroids'[a].radius = k * 18
       \* the asteroids of the medium and large kind: those that
       \* spawn_asteroid built with size 2 or 3, whatever radius it gave them
       /\ (last'.op = "hit" /\ last'.ret
           /\ last'.args[2].radius \in {2, 3, 2 * 18, 3 * 18})
              => Cardinality(DOMAIN asteroids')
                     = Cardinality(DOMAIN asteroids) + 1
      ]_vars

\* an asteroid of the large kind, spawned for the wave with radius 3, has
\* been destroyed by one shot without leaving children
C28_LargeKindDoesNotSplit ==
    /\ last.op = "hit"
    /\ last.ret
    /\ last.args[2].radius = 3
    /\ last.args[2].score_value = 25
    /\ asteroids = << >>
    /\ level_manager.waves[1].asteroids_spawned = 1

-----------------------------------------------------------------------------
(* The fade between two states, under SpecGame.                            *)

\* C29: change_state(s) leaves current_state as it is; current_state
\* changes only in the update call in which transition_alpha reaches 255,
\* and then becomes s; while the transition is pending handle_event returns
\* False and changes nothing; a change_state call made while a transition
\* is pending starts the fade again from alpha 0
C29_StateChangesAfterFade ==
    [][/\ gsm'.current_state # gsm.current_state
              => /\ last'.op = "GameStateManager.update"
                 /\ gsm.transitioning_to = gsm'.current_state
                 /\ gsm.transition_alpha + 5 >= 255
                 /\ gsm'.transition_alpha = 255
                 /\ gsm'.transitioning_to = "None"
       /\ (last'.op = "GameStateManager.update"
           /\ gsm.transitioning_to # "None")
              => IF gsm.transition_alpha + 5 >= 255
                 THEN gsm'.current_state = gsm.transitioning_to
                 ELSE /\ gsm'.current_state = gsm.current_state
                      /\ gsm'.transitioning_to = gsm.transitioning_to
                      /\ gsm'.transition_alpha = gsm.transition_alpha + 5
       /\ (last'.op = "handle_event" /\ gsm.transitioning_to # "None")
              => /\ last'.ret = "False"
                 /\ UNCHANGED <<gsm, score_system, asteroids, ufos,
                                enemy_projectiles, shots, powerups,
                                level_manager, player>>
       /\ (\/ /\ last'.op = "handle_event"
              /\ gsm'.transitioning_to # gsm.transitioning_to
           \/ <<"on_game_over", FALSE>> \in last'.calls
           \/ <<"on_game_over", TRUE>> \in last'.calls)
              => /\ gsm'.transition_alpha = 0
                 /\ gsm'.transitioning_to # "None"
                 /\ gsm'.current_state = gsm.current_state
      ]_vars

\* RETURN was pressed in the middle of the fade from the menu to the game
\* and was ignored
C29_Witness ==
    /\ last.op = "handle_event"
    /\ last.args = <<"RETURN">>
    /\ last.ret = "False"
    /\ gsm.current_state = "MENU"
    /\ gsm.transitioning_to = "PLAYING"
    /\ gsm.transition_alpha = 100

-----------------------------------------------------------------------------
(* Progress through the waves and the levels: SpecManager with the frames   *)
(* that keep ticking (update is called again and again while the program    *)
(* runs) and with the asteroids alive destroyed again and again (update is  *)
(* called again and again with an empty asteroids group).                   *)

SpecManagerFair ==
    /\ SpecManager
    /\ WF_vars(\E dt \in LevelDts, roll \in Rolls : update_call(dt, 0, roll))

=============================================================================
